---- MODULE Spec2Model ----
(***************************************************************************)
(* Register subsystem of pyuavcan.application.register: the Value          *)
(* conversion (_value.py), the two backends (backend/sqlite.py,            *)
(* backend/dynamic.py), the Registry facade (_registry.py), the access     *)
(* transaction of the older Repository facade (_repository.py) and the     *)
(* Access handler of the RPC server (_server.py).                          *)
(*                                                                         *)
(* A Value is a record [opt, val]: opt is the name of the selected union   *)
(* option, val the array (or the bytes of a string / unstructured).        *)
(* Elements: bit -> BOOLEAN; integerN / naturalN -> Int; realN -> Int      *)
(* counting halves (3 stands for 1.5), which is enough to see Python's     *)
(* round-half-to-even; string / unstructured -> byte values.               *)
(***************************************************************************)
EXTENDS Integers, Sequences, FiniteSets, TLC

VARIABLES backends, db, reg, loc, closed, wasClosed, setups, last

vars == <<backends, db, reg, loc, closed, wasClosed, setups, last>>

---------------------------------------------------------------------------
(* Bounds of the exploration. *)

\* Direct backend mutations (SQLiteBackend.set, DynamicBackend.register) per run.
MaxSetup == 2
\* Backends bound to the registry.
MaxChain == 2
\* The largest index asked of get_name_at_index and of the List service.
MaxIndex == 2
\* The longest array a ValueProxy is created with or assigned from.
MaxLen == 2

---------------------------------------------------------------------------
(* Values: uavcan.register.Value *)

IntegerOpts == {"integer8", "integer16", "integer32", "integer64"}
NaturalOpts == {"natural8", "natural16", "natural32", "natural64"}
RealOpts == {"real16", "real32", "real64"}

\* Value(): the empty option is selected by default.
EmptyValue == [opt |-> "empty", val |-> <<>>]

\* Filler of the Value-typed fields of a result that carries no value (Python's None).
NoValue == [opt |-> "-", val |-> <<>>]

Bit(seq) == [opt |-> "bit", val |-> seq]
Integer8(seq) == [opt |-> "integer8", val |-> seq]
Integer64(seq) == [opt |-> "integer64", val |-> seq]
Natural64(seq) == [opt |-> "natural64", val |-> seq]
Real64(seq) == [opt |-> "real64", val |-> seq]
String(seq) == [opt |-> "string", val |-> seq]
Unstructured(seq) == [opt |-> "unstructured", val |-> seq]

\* float("nan") as an element of a real array: a count of halves that no
\* number of the model has.
NaN == 999
IsNaN(opt, x) == opt \in RealOpts /\ x = NaN

\* The element x of an array of option opt as a number, in halves.
Halves(opt, x) ==
  IF opt = "bit" THEN (IF x THEN 2 ELSE 0)
  ELSE IF opt \in RealOpts THEN x
  ELSE 2 * x

\* Rounding that takes every tie upwards.
RoundHalfUp(h) == (h + 1) \div 2

\* Python's round(x) for x = h / 2: to the nearest integer, ties to the even one.
RoundHalfEven(h) ==
  LET q == h \div 2
  IN  IF h % 2 = 0 THEN q
      ELSE IF q % 2 = 0 THEN q ELSE q + 1

\* Results of _do_convert that are not a Value: None, the AssertionError of
\* its last line, the ValueError of round(x) on a NaN.
ConvNone == [opt |-> "None", val |-> <<>>]
ConvAssertFalse == [opt |-> "AssertionError", val |-> <<>>]
ConvValueError == [opt |-> "ValueError", val |-> <<>>]
ConvFailures == {ConvNone, ConvAssertFalse, ConvValueError}

\* _do_convert without its dimensionality check.
DoConvert_NoLengthCheck(to, s) ==
  IF to.opt = "empty" \/ s.opt = "empty" THEN to
  ELSE IF (to.opt = "string" /\ s.opt = "string")
          \/ (to.opt = "unstructured" /\ s.opt = "unstructured") THEN s
  ELSE IF to.opt = "string" /\ s.opt = "unstructured" THEN String(s.val)
  ELSE IF to.opt = "unstructured" /\ s.opt = "string" THEN Unstructured(s.val)
  ELSE IF to.opt = s.opt THEN s
  ELSE IF to.opt = "bit"
    THEN Bit([i \in 1..Len(s.val) |-> Halves(s.opt, s.val[i]) # 0])
  ELSE IF to.opt \in RealOpts
    THEN [opt |-> to.opt, val |-> [i \in 1..Len(s.val) |-> Halves(s.opt, s.val[i])]]
  ELSE IF \E i \in 1..Len(s.val) : IsNaN(s.opt, s.val[i]) THEN ConvValueError
  ELSE IF to.opt \in IntegerOpts \cup NaturalOpts
    THEN [opt |-> to.opt,
          val |-> [i \in 1..Len(s.val) |-> RoundHalfEven(Halves(s.opt, s.val[i]))]]
  ELSE ConvAssertFalse

\* _do_convert giving an empty destination the source.
DoConvert_EmptyTakesSource(to, s) ==
  IF s.opt = "empty" THEN to
  ELSE IF to.opt = "empty" THEN s
  ELSE IF (to.opt = "string" /\ s.opt = "string")
          \/ (to.opt = "unstructured" /\ s.opt = "unstructured") THEN s
  ELSE IF to.opt = "string" /\ s.opt = "unstructured" THEN String(s.val)
  ELSE IF to.opt = "unstructured" /\ s.opt = "string" THEN Unstructured(s.val)
  ELSE IF Len(to.val) # Len(s.val) THEN ConvNone
  ELSE IF to.opt = s.opt THEN s
  ELSE IF to.opt = "bit"
    THEN Bit([i \in 1..Len(s.val) |-> Halves(s.opt, s.val[i]) # 0])
  ELSE IF to.opt \in RealOpts
    THEN [opt |-> to.opt, val |-> [i \in 1..Len(s.val) |-> Halves(s.opt, s.val[i])]]
  ELSE IF \E i \in 1..Len(s.val) : IsNaN(s.opt, s.val[i]) THEN ConvValueError
  ELSE IF to.opt \in IntegerOpts \cup NaturalOpts
    THEN [opt |-> to.opt,
          val |-> [i \in 1..Len(s.val) |-> RoundHalfEven(Halves(s.opt, s.val[i]))]]
  ELSE ConvAssertFalse

\* _do_convert(to, s): a Value, None (dimensionality mismatch), the
\* ValueError of round(x) when an integer or natural array is to take a NaN,
\* or the trailing `assert False`, reached when `to` is a string or
\* unstructured and `s` a numeric array of the same length.
DoConvert(to, s) ==
  IF to.opt = "empty" \/ s.opt = "empty" THEN to
  ELSE IF (to.opt = "string" /\ s.opt = "string")
          \/ (to.opt = "unstructured" /\ s.opt = "unstructured") THEN s
  ELSE IF to.opt = "string" /\ s.opt = "unstructured" THEN String(s.val)
  ELSE IF to.opt = "unstructured" /\ s.opt = "string" THEN Unstructured(s.val)
  ELSE IF Len(to.val) # Len(s.val) THEN ConvNone
  ELSE IF to.opt = s.opt THEN s
  ELSE IF to.opt = "bit"
    THEN Bit([i \in 1..Len(s.val) |-> Halves(s.opt, s.val[i]) # 0])
  ELSE IF to.opt \in RealOpts
    THEN [opt |-> to.opt, val |-> [i \in 1..Len(s.val) |-> Halves(s.opt, s.val[i])]]
  ELSE IF \E i \in 1..Len(s.val) : IsNaN(s.opt, s.val[i]) THEN ConvValueError
  ELSE IF to.opt \in IntegerOpts \cup NaturalOpts
    THEN [opt |-> to.opt,
          val |-> [i \in 1..Len(s.val) |-> RoundHalfEven(Halves(s.opt, s.val[i]))]]
  ELSE ConvAssertFalse

(* RelaxedValue: [py, v].  py = "Value": v is a Value; "ValueProxy": v is    *)
(* the proxy's Value; "bool" / "int" / "float": a native scalar (a float in  *)
(* halves); "str" / "bytes": the bytes; "list": a sequence of native scalars *)
(* [py, v].                                                                  *)
RelaxedOf(value) == [py |-> "Value", v |-> value]
ProxyOf(value) == [py |-> "ValueProxy", v |-> value]

NativeHalves(x) ==
  IF x.py = "bool" THEN (IF x.v THEN 2 ELSE 0)
  ELSE IF x.py = "float" THEN x.v
  ELSE 2 * x.v

\* A _strictify that has no natural64 branch.
StrictifyList_AlwaysSigned(s) ==
  IF s = <<>> THEN EmptyValue
  ELSE IF \A i \in 1..Len(s) : s[i].py = "bool"
    THEN Bit([i \in 1..Len(s) |-> s[i].v])
  ELSE IF \A i \in 1..Len(s) : s[i].py \in {"int", "bool"}
    THEN Integer64([i \in 1..Len(s) |-> NativeHalves(s[i]) \div 2])
  ELSE Real64([i \in 1..Len(s) |-> NativeHalves(s[i])])

\* _strictify(s) of a sequence s of native scalars
StrictifyList(s) ==
  IF s = <<>> THEN EmptyValue
  ELSE IF \A i \in 1..Len(s) : s[i].py = "bool"
    THEN Bit([i \in 1..Len(s) |-> s[i].v])
  ELSE IF \A i \in 1..Len(s) : s[i].py \in {"int", "bool"}
    THEN IF \A i \in 1..Len(s) : NativeHalves(s[i]) >= 0
           THEN Natural64([i \in 1..Len(s) |-> NativeHalves(s[i]) \div 2])
           ELSE Integer64([i \in 1..Len(s) |-> NativeHalves(s[i]) \div 2])
  ELSE Real64([i \in 1..Len(s) |-> NativeHalves(s[i])])

\* _strictify(s)
Strictify(s) ==
  IF s.py \in {"Value", "ValueProxy"} THEN s.v
  ELSE IF s.py \in {"bool", "int", "float"} THEN StrictifyList(<<s>>)
  ELSE IF s.py = "str" THEN String(s.v)
  ELSE IF s.py = "bytes" THEN Unstructured(s.v)
  ELSE StrictifyList(s.v)

\* ValueProxy.assign(source) on a proxy holding `to`: the new value of the
\* proxy, or the exception that leaves it as it was.
ValueProxy_assign_NoRaise(to, source) ==
  LET res == DoConvert(to, Strictify(source))
  IN  IF res \in ConvFailures THEN [kind |-> "ok", value |-> to]
      ELSE [kind |-> "ok", value |-> res]

\* An assign that takes the source as it is when it can be converted.
ValueProxy_assign_TakesSource(to, source) ==
  LET res == DoConvert(to, Strictify(source))
  IN  IF res = ConvAssertFalse THEN [kind |-> "AssertionError", value |-> to]
      ELSE IF res = ConvValueError THEN [kind |-> "ValueError", value |-> to]
      ELSE IF res = ConvNone THEN [kind |-> "ValueConversionError", value |-> to]
      ELSE [kind |-> "ok", value |-> Strictify(source)]

ValueProxy_assign(to, source) ==
  LET res == DoConvert(to, Strictify(source))
  IN  IF res = ConvAssertFalse THEN [kind |-> "AssertionError", value |-> to]
      ELSE IF res = ConvValueError THEN [kind |-> "ValueError", value |-> to]
      ELSE IF res = ConvNone THEN [kind |-> "ValueConversionError", value |-> to]
      ELSE [kind |-> "ok", value |-> res]

---------------------------------------------------------------------------
(* Backends.  The registry of the application (Node.__init__) is built on  *)
(* one SQLiteBackend, "b0", and one DynamicBackend, "b1", as in the        *)
(* doctest of Registry.                                                    *)

Names == {"x", "y"}
\* Nothing makes a backend refuse the empty string as a name.
AnyNames == Names \cup {""}
\* The names in lexicographic order.
NameOrder == <<"", "x", "y">>
IsBefore(m, n) ==
  \E i, j \in 1..Len(NameOrder) : i < j /\ NameOrder[i] = m /\ NameOrder[j] = n

SQLITE == "b0"
DYNAMIC == "b1"
BackendIds == {SQLITE, DYNAMIC}

\* backend.Entry, and what Backend.get gives instead of one: None, or an exception.
Entry(value, mutable) == [kind |-> "entry", value |-> value, mutable |-> mutable]
NoEntry == [kind |-> "None", value |-> NoValue, mutable |-> FALSE]
GetRaised(ex) == [kind |-> ex, value |-> NoValue, mutable |-> FALSE]

(* SQLiteBackend: the table `register` is a set of rows [name, value,      *)
(* mutable], name being the primary key; value is the serialized Value,    *)
(* mutable the stored boolean, 0 or 1.                                     *)

\* _LOCATION_VOLATILE
LocationVolatile == ":memory:"
Locations == {LocationVolatile, "/var/registers.db"}

\* A serialization that loses the tag of the union.
Serialize_Untagged(value) == [tag |-> "unstructured", payload |-> value.val]

\* pyuavcan.dsdl.serialize / deserialize of the union: the tag, then the array.
Serialize(value) == [tag |-> value.opt, payload |-> value.val]
Deserialize(blob) == [opt |-> blob.tag, val |-> blob.payload]

\* SQLiteBackend._loc = str(location or _LOCATION_VOLATILE).strip(); no
\* location of the model has blanks at its ends.
SQLiteBackend_loc(location) == IF location = "" THEN LocationVolatile ELSE location

\* str.lower() on the locations of the model
Lower(str) == IF str = ":MEMORY:" THEN ":memory:" ELSE str

\* SQLiteBackend.persistent
SQLiteBackend_persistent(location) == Lower(SQLiteBackend_loc(location)) # LocationVolatile

\* sqlite3.connect(_loc): the name ":memory:", spelt exactly so, opens a
\* database in memory; every other name is a file.
InMemory(location) == SQLiteBackend_loc(location) = ":memory:"

\* SQLiteBackend.count: select count(*) from register
SQLiteBackend_count(rows) == Cardinality(rows)

RowNames(rows) == {r.name : r \in rows}

\* SQLiteBackend.keys: select name from register order by name
SQLiteBackend_keys(rows) == SelectSeq(NameOrder, LAMBDA n : n \in RowNames(rows))

\* SQLiteBackend.get
SQLiteBackend_get(rows, name) ==
  IF name \notin RowNames(rows) THEN NoEntry
  ELSE LET res == CHOOSE r \in rows : r.name = name
       IN  Entry(Deserialize(res.value), res.mutable # 0)

\* SQLiteBackend.set: insert or replace, the entry always mutable
SQLiteBackend_set_InsertOrIgnore(rows, name, value) ==
  IF name \in RowNames(rows) THEN rows
  ELSE rows \cup {[name |-> name, value |-> Serialize(value), mutable |-> 1]}

SQLiteBackend_set(rows, name, value) ==
  {r \in rows : r.name # name}
    \cup {[name |-> name, value |-> Serialize(value), mutable |-> 1]}

\* SQLiteBackend.delete
SQLiteBackend_delete(rows, names) == {r \in rows : r.name \notin names}

(* DynamicBackend: _reg is a dict, that is a sequence of items in          *)
(* insertion order, [name, getter, setter, cell].  A getter is "var" (it   *)
(* returns the variable `cell` its closure holds, as `lambda: val` does)   *)
(* or "raise" (it throws); a setter is "none" (no setter given), "store"   *)
(* (it assigns its argument to the variable, as set_val does) or "raise".  *)

GetSetPairs ==
  { <<"var", "none">>, <<"var", "store">>, <<"var", "raise">>, <<"raise", "none">> }

ItemIndex(items, name) ==
  IF \E i \in 1..Len(items) : items[i].name = name
    THEN CHOOSE i \in 1..Len(items) : items[i].name = name
    ELSE 0

\* DynamicBackend.keys
DynamicBackend_keys(items) == [i \in 1..Len(items) |-> items[i].name]

\* DynamicBackend.count
DynamicBackend_count(items) == Len(items)

\* DynamicBackend.get
DynamicBackend_get_AlwaysMutable(items, name) ==
  LET i == ItemIndex(items, name)
  IN  IF i = 0 THEN NoEntry
      ELSE IF items[i].getter = "raise" THEN GetRaised("BackendError")
      ELSE Entry(items[i].cell, TRUE)

DynamicBackend_get(items, name) ==
  LET i == ItemIndex(items, name)
  IN  IF i = 0 THEN NoEntry
      ELSE IF items[i].getter = "raise" THEN GetRaised("BackendError")
      ELSE Entry(items[i].cell, items[i].setter # "none")

\* A set that writes the variable of a register that has no setter.
DynamicBackend_set_WritesCell(items, name, value) ==
  LET i == ItemIndex(items, name)
  IN  IF i = 0 THEN [items |-> items, kind |-> "ok", invoked |-> FALSE]
      ELSE IF items[i].setter = "raise"
        THEN [items |-> items, kind |-> "SetterException", invoked |-> TRUE]
      ELSE [items |-> [items EXCEPT ![i].cell = value], kind |-> "ok",
            invoked |-> items[i].setter # "none"]

\* A set that creates the register it does not find.
DynamicBackend_set_Creates(items, name, value) ==
  LET i == ItemIndex(items, name)
      setter == IF i = 0 THEN "none" ELSE items[i].setter
  IN  IF i = 0
        THEN [items |-> Append(items, [name |-> name, getter |-> "var",
                                       setter |-> "store", cell |-> value]),
              kind |-> "ok", invoked |-> FALSE]
      ELSE IF setter = "none" THEN [items |-> items, kind |-> "ok", invoked |-> FALSE]
      ELSE IF setter = "raise"
        THEN [items |-> items, kind |-> "SetterException", invoked |-> TRUE]
      ELSE [items |-> [items EXCEPT ![i].cell = value], kind |-> "ok", invoked |-> TRUE]

\* DynamicBackend.set: [items, kind, invoked]; the setter's exception is not wrapped.
DynamicBackend_set(items, name, value) ==
  LET i == ItemIndex(items, name)
      setter == IF i = 0 THEN "none" ELSE items[i].setter
  IN  IF setter = "none" THEN [items |-> items, kind |-> "ok", invoked |-> FALSE]
      ELSE IF setter = "raise"
        THEN [items |-> items, kind |-> "SetterException", invoked |-> TRUE]
      ELSE [items |-> [items EXCEPT ![i].cell = value], kind |-> "ok", invoked |-> TRUE]

\* DynamicBackend.delete
DynamicBackend_delete(items, names) == SelectSeq(items, LAMBDA it : it.name \notin names)

\* The items as they are, not sorted.
SortedItems_Unsorted(items) == items

\* sorted(items, key=name): stable insertion sort.
RECURSIVE SortedItems(_)
SortedItems(items) ==
  IF items = <<>> THEN <<>>
  ELSE LET n == Len(items)
           head == SortedItems(SubSeq(items, 1, n - 1))
           x == items[n]
           k == Cardinality({i \in 1..Len(head) : ~IsBefore(x.name, head[i].name)})
       IN  SubSeq(head, 1, k) \o <<x>> \o SubSeq(head, k + 1, Len(head))

\* A dict that keeps the first value of a repeated key.
RECURSIVE DictOf_KeepsFirst(_)
DictOf_KeepsFirst(items) ==
  IF items = <<>> THEN <<>>
  ELSE LET n == Len(items)
           head == DictOf_KeepsFirst(SubSeq(items, 1, n - 1))
       IN  IF ItemIndex(head, items[n].name) = 0 THEN Append(head, items[n]) ELSE head

\* dict(items): a repeated key keeps its first place and takes the last value.
RECURSIVE DictOf(_)
DictOf(items) ==
  IF items = <<>> THEN <<>>
  ELSE LET n == Len(items)
           head == DictOf(SubSeq(items, 1, n - 1))
           i == ItemIndex(head, items[n].name)
       IN  IF i = 0 THEN Append(head, items[n]) ELSE [head EXCEPT ![i] = items[n]]

\* DynamicBackend.register
DynamicBackend_register(items, name, getter, setter, cell) ==
  DictOf(SortedItems(Append(items,
    [name |-> name, getter |-> getter, setter |-> setter, cell |-> cell])))

(* The storage both backends hold: S = [db, reg, loc, closed]; closed says  *)
(* that the connection of the SQLite backend has been closed.              *)

\* Backend.persistent
Backend_persistent(S, b) ==
  IF b = SQLITE THEN SQLiteBackend_persistent(S.loc) ELSE FALSE

\* Backend.keys
Backend_keys(S, b) ==
  IF b = SQLITE THEN SQLiteBackend_keys(S.db) ELSE DynamicBackend_keys(S.reg)

\* Backend.get
Backend_get(S, b, name) ==
  IF b = SQLITE THEN SQLiteBackend_get(S.db, name) ELSE DynamicBackend_get(S.reg, name)

\* Backend.set: [S, kind, invoked]
Backend_set(S, b, name, value) ==
  IF b = SQLITE
    THEN [S |-> [S EXCEPT !.db = SQLiteBackend_set(S.db, name, value)],
          kind |-> "ok", invoked |-> FALSE]
    ELSE LET w == DynamicBackend_set(S.reg, name, value)
         IN  [S |-> [S EXCEPT !.reg = w.items], kind |-> w.kind, invoked |-> w.invoked]

\* Backend.delete
Backend_delete(S, b, names) ==
  IF b = SQLITE THEN [S EXCEPT !.db = SQLiteBackend_delete(S.db, names)]
  ELSE [S EXCEPT !.reg = DynamicBackend_delete(S.reg, names)]

\* Backend.count
Backend_count(S, b) ==
  IF b = SQLITE THEN SQLiteBackend_count(S.db) ELSE DynamicBackend_count(S.reg)

\* A close that leaves nothing behind.
Backend_close_Volatile(S, b) ==
  IF b = SQLITE THEN [S EXCEPT !.closed = TRUE, !.db = {}]
  ELSE [S EXCEPT !.reg = <<>>]

\* Backend.close: SQLiteBackend closes its connection, and a database in
\* memory goes with it; DynamicBackend clears _reg.
Backend_close(S, b) ==
  IF b = SQLITE
    THEN [S EXCEPT !.closed = TRUE,
                   !.db = IF InMemory(S.loc) THEN {} ELSE S.db]
    ELSE [S EXCEPT !.reg = <<>>]

---------------------------------------------------------------------------
(* Registry, Repository.access, Server._handle_access.  Each operation is  *)
(* an operator from the storage S and the chain ch (Registry._backends) to *)
(* [S, out, trace]: the storage it leaves, what the caller gets, and the   *)
(* calls it made, in order: [call, b, value] with call = "get" / "set"     *)
(* (Backend.get / Backend.set of backend b), "setter" (a delegated         *)
(* register's setter ran, inside Backend.set) or "delete".                 *)

Outcome(kind, value, mutable, persistent) ==
  [kind |-> kind, value |-> value, mutable |-> mutable, persistent |-> persistent]
\* ValueWithFlags(msg, mutable, persistent)
ValueWithFlags(value, mutable, persistent) == Outcome("value", value, mutable, persistent)
\* A method returning None.
ReturnedNone == Outcome("None", NoValue, FALSE, FALSE)
\* An exception leaving the method.
Raised(ex) == Outcome(ex, NoValue, FALSE, FALSE)
Exceptions ==
  {"MissingRegisterError", "ValueConversionError", "BackendError",
   "AssertionError", "ValueError", "SetterException"}
IsRaised(out) == out.kind \in Exceptions

Result(S, out, trace) == [S |-> S, out |-> out, trace |-> trace]
Call(call, b, value) == [call |-> call, b |-> b, value |-> value]

\* Backend.set seen from the registry: the call, and the setter if it ran.
SetCalls(b, value, w) ==
  IF w.invoked THEN <<Call("set", b, value), Call("setter", b, value)>>
  ELSE <<Call("set", b, value)>>

\* Registry.get
RECURSIVE Registry_get_from(_, _, _, _, _)
Registry_get_from(S, ch, i, name, tr) ==
  IF i > Len(ch) THEN Result(S, ReturnedNone, tr)
  ELSE LET b == ch[i]
           ent == Backend_get(S, b, name)
           tr1 == Append(tr, Call("get", b, NoValue))
       IN  IF ent.kind = "BackendError" THEN Result(S, Raised("BackendError"), tr1)
           ELSE IF ent.kind = "entry"
             THEN Result(S, ValueWithFlags(ent.value, ent.mutable, Backend_persistent(S, b)), tr1)
           ELSE Registry_get_from(S, ch, i + 1, name, tr1)

Registry_get(S, ch, name) == Registry_get_from(S, ch, 1, name, <<>>)

\* Registry.set, the else clause of the loop: no backend has the register.
Registry_set_else_Silent(S, tr) == Result(S, ReturnedNone, tr)

\* An else clause that creates a register in the SQLite backend.
Registry_set_else_Creates(S, tr) ==
  Result([S EXCEPT !.db = SQLiteBackend_set(S.db, "x", EmptyValue)], ReturnedNone, tr)

Registry_set_else(S, tr) == Result(S, Raised("MissingRegisterError"), tr)

\* Registry.set
RECURSIVE Registry_set_from(_, _, _, _, _, _)
Registry_set_from(S, ch, i, name, value, tr) ==
  IF i > Len(ch) THEN Registry_set_else(S, tr)
  ELSE LET b == ch[i]
           e == Backend_get(S, b, name)
           tr1 == Append(tr, Call("get", b, NoValue))
       IN  IF e.kind = "BackendError" THEN Result(S, Raised("BackendError"), tr1)
           ELSE IF e.kind = "entry"
             THEN LET c == ValueProxy_assign(e.value, value)
                  IN  IF c.kind # "ok" THEN Result(S, Raised(c.kind), tr1)
                      ELSE LET w == Backend_set(S, b, name, c.value)
                               tr2 == tr1 \o SetCalls(b, c.value, w)
                           IN  IF w.kind # "ok" THEN Result(w.S, Raised(w.kind), tr2)
                               ELSE Result(w.S, ReturnedNone, tr2)
           ELSE Registry_set_from(S, ch, i + 1, name, value, tr1)

Registry_set(S, ch, name, value) == Registry_set_from(S, ch, 1, name, value, <<>>)

\* The wildcards given to delete: literal names and "*"; with "?" and the
\* upper-case "X" where the matching itself is looked at.
Wildcards == Names \cup {"*"}
AnyWildcards == AnyNames \cup {"*", "?", "X"}

\* The characters of the names and wildcards.
Chars(str) ==
  CASE str = "" -> <<>>
    [] OTHER -> <<str>>

\* fnmatchcase(n, wildcard) on characters: "*" matches any run of characters,
\* "?" any one character, any other character itself, case kept.
RECURSIVE GlobMatch(_, _)
GlobMatch(n, pat) ==
  IF pat = <<>> THEN n = <<>>
  ELSE IF Head(pat) = "*"
    THEN GlobMatch(n, Tail(pat)) \/ (n # <<>> /\ GlobMatch(Tail(n), pat))
  ELSE IF n = <<>> THEN FALSE
  ELSE (Head(pat) = "?" \/ Head(pat) = Head(n)) /\ GlobMatch(Tail(n), Tail(pat))

\* The characters with their case folded, as fnmatch (not fnmatchcase) may do.
Folded(chars) == [i \in 1..Len(chars) |-> IF chars[i] = "X" THEN "x" ELSE chars[i]]

fnmatchcase_FoldsCase(n, wildcard) == GlobMatch(Folded(Chars(n)), Folded(Chars(wildcard)))

fnmatchcase(n, wildcard) == GlobMatch(Chars(n), Chars(wildcard))

\* Registry.delete
RECURSIVE Registry_delete_from(_, _, _, _, _)
Registry_delete_from(S, ch, i, wildcard, tr) ==
  IF i > Len(ch) THEN Result(S, ReturnedNone, tr)
  ELSE LET b == ch[i]
           keys == Backend_keys(S, b)
           names == {keys[k] : k \in {k \in 1..Len(keys) : fnmatchcase(keys[k], wildcard)}}
       IN  Registry_delete_from(Backend_delete(S, b, names), ch, i + 1, wildcard,
                                Append(tr, Call("delete", b, NoValue)))

Registry_delete_FirstOnly(S, ch, wildcard) ==
  Registry_delete_from(S, IF ch = <<>> THEN ch ELSE <<ch[1]>>, 1, wildcard, <<>>)

Registry_delete(S, ch, wildcard) == Registry_delete_from(S, ch, 1, wildcard, <<>>)

\* Registry.close, the loop `for b in self._backends: b.close()`; the action
\* Close clears the chain.
RECURSIVE Registry_close_from(_, _, _, _)
Registry_close_from(S, ch, i, tr) ==
  IF i > Len(ch) THEN Result(S, ReturnedNone, tr)
  ELSE Registry_close_from(Backend_close(S, ch[i]), ch, i + 1,
                           Append(tr, Call("close", ch[i], NoValue)))

Registry_close(S, ch) == Registry_close_from(S, ch, 1, <<>>)

\* Registry.keys: [n for b in self._backends for n in b.keys()]
RECURSIVE Registry_keys_from(_, _, _)
Registry_keys_from(S, ch, i) ==
  IF i > Len(ch) THEN <<>>
  ELSE Backend_keys(S, ch[i]) \o Registry_keys_from(S, ch, i + 1)

Registry_keys_FirstBackend(S, ch) ==
  IF ch = <<>> THEN <<>> ELSE Backend_keys(S, ch[1])

Registry_keys(S, ch) == Registry_keys_from(S, ch, 1)

\* Registry.get_name_at_index: self.keys()[index], a Python list index, so a
\* negative index counts from the end; <<name>>, or <<>> for None (LookupError).
Registry_get_name_at_index(S, ch, index) ==
  LET keys == Registry_keys(S, ch)
      n == Len(keys)
  IN  IF 0 <= index /\ index < n THEN <<keys[index + 1]>>
      ELSE IF -n <= index /\ index < 0 THEN <<keys[n + index + 1]>>
      ELSE <<>>

\* Server._handle_list: the name of the List response, empty by default.
Server_handle_list(S, ch, index) ==
  LET name == Registry_get_name_at_index(S, ch, index)
  IN  IF name # <<>> THEN name[1] ELSE ""

\* Repository.access: `if e.mutable and not value.empty`
Access_writes_IgnoreEmpty(e, value) == e.mutable

Access_writes(e, value) == e.mutable /\ value.opt # "empty"

\* Repository.access: `except ValueError` (ValueConversionError is a ValueError)
Access_catches_Nothing(ex) == FALSE

Access_catches(ex) == ex \in {"ValueConversionError", "ValueError"}

\* Repository.access: the return when no backend has the register.
Access_no_register_Mutable == ValueWithFlags(EmptyValue, TRUE, FALSE)

Access_no_register == ValueWithFlags(EmptyValue, FALSE, FALSE)

\* Repository.access
RECURSIVE Repository_access_from(_, _, _, _, _, _)
Repository_access_from(S, ch, i, name, value, tr) ==
  IF i > Len(ch) THEN Result(S, Access_no_register, tr)
  ELSE LET b == ch[i]
           e == Backend_get(S, b, name)
           tr1 == Append(tr, Call("get", b, NoValue))
           unchanged == Result(S, ValueWithFlags(e.value, e.mutable, Backend_persistent(S, b)), tr1)
       IN  IF e.kind = "BackendError" THEN Result(S, Raised("BackendError"), tr1)
           ELSE IF e.kind = "None" THEN Repository_access_from(S, ch, i + 1, name, value, tr1)
           ELSE IF ~Access_writes(e, value) THEN unchanged
           ELSE LET c == ValueProxy_assign(e.value, RelaxedOf(value))
                IN  IF c.kind # "ok"
                      THEN IF Access_catches(c.kind) THEN unchanged
                           ELSE Result(S, Raised(c.kind), tr1)
                    ELSE LET w == Backend_set(S, b, name, c.value)
                             tr2 == tr1 \o SetCalls(b, c.value, w)
                             e2 == Backend_get(w.S, b, name)
                             tr3 == Append(tr2, Call("get", b, NoValue))
                         IN  IF w.kind # "ok" THEN Result(w.S, Raised(w.kind), tr2)
                             ELSE IF e2.kind = "BackendError"
                               THEN Result(w.S, Raised("BackendError"), tr3)
                             ELSE Result(w.S,
                                    ValueWithFlags(e2.value, e2.mutable, Backend_persistent(w.S, b)),
                                    tr3)

Repository_access(S, ch, name, value) == Repository_access_from(S, ch, 1, name, value, <<>>)

\* Access.Response(): the defaults, for "no such register".
Access_Response_default == Outcome("response", EmptyValue, FALSE, FALSE)

\* Server._handle_access: the response built from v.
Server_respond(S, v, tr) ==
  IF v.kind = "value"
    THEN Result(S, Outcome("response", v.value, v.mutable, v.persistent), tr)
    ELSE Result(S, Access_Response_default, tr)

\* Server._handle_access: `v = self._registry.get(name)` after the write, then the response.
Server_read_back(S, ch, name, tr) ==
  LET g == Registry_get_from(S, ch, 1, name, tr)
  IN  IF IsRaised(g.out) THEN g ELSE Server_respond(S, g.out, g.trace)

\* Server._handle_access: the exceptions its try statement catches.
Server_catches(ex) == ex \in {"ValueConversionError", "MissingRegisterError"}

\* Server._handle_access
Server_handle_access(S, ch, name, value) ==
  LET g == Registry_get(S, ch, name)
      v == g.out
  IN  IF IsRaised(v) THEN g
      ELSE IF v.kind = "value" /\ v.mutable /\ value.opt # "empty"
        THEN LET a == ValueProxy_assign(v.value, RelaxedOf(value))
                 st == Registry_set_from(S, ch, 1, name, ProxyOf(a.value), g.trace)
             IN  IF a.kind # "ok"
                   THEN IF Server_catches(a.kind) THEN Server_read_back(S, ch, name, g.trace)
                        ELSE Result(S, Raised(a.kind), g.trace)
                 ELSE IF IsRaised(st.out)
                   THEN IF Server_catches(st.out.kind)
                          THEN Server_read_back(st.S, ch, name, st.trace)
                          ELSE st
                 ELSE Server_read_back(st.S, ch, name, st.trace)
      ELSE Server_respond(S, v, g.trace)

---------------------------------------------------------------------------
(* The state machine.  backends is Registry._backends; db the rows of b0;  *)
(* reg the _reg of b1; loc the location b0 was opened at; setups counts    *)
(* the direct backend mutations; last records the latest Registry /        *)
(* Repository / Server operation: what was called, with what, on which     *)
(* storage (pre), what it returned or raised (out) and the backend calls   *)
(* it made (trace).                                                        *)

\* Values an application creates registers with.
SeedValues == {EmptyValue, Bit(<<TRUE>>), Integer8(<<1, 2>>), String(<<65>>)}

\* Values a remote peer sends in an Access request.
RequestValues == {EmptyValue, Bit(<<FALSE>>), Real64(<<3, 5>>), String(<<66>>)}

\* Native values passed to Registry.set: False, [1.5, 2.5], "B", [].
NativeValues ==
  { [py |-> "bool", v |-> FALSE],
    [py |-> "list", v |-> <<[py |-> "float", v |-> 3], [py |-> "float", v |-> 5]>>],
    [py |-> "str", v |-> <<66>>],
    [py |-> "list", v |-> <<>>] }

\* Indexes given to Registry.get_name_at_index (an int) and sent in a List
\* request (a uint16).
Indexes == -MaxIndex..MaxIndex
ListIndexes == 0..MaxIndex

Storage == [db |-> db, reg |-> reg, loc |-> loc, closed |-> closed]

Idle ==
  [op |-> "-", name |-> "-", arg |-> RelaxedOf(NoValue), index |-> 0,
   out |-> ReturnedNone, names |-> <<>>, trace |-> <<>>,
   pre |-> [backends |-> <<>>, db |-> {}, reg |-> <<>>, closed |-> FALSE,
            wasClosed |-> FALSE]]

Record(op, name, arg, r) ==
  [op |-> op, name |-> name, arg |-> arg, index |-> 0,
   out |-> r.out, names |-> <<>>, trace |-> r.trace,
   pre |-> [backends |-> backends, db |-> db, reg |-> reg, closed |-> closed,
            wasClosed |-> wasClosed]]

\* The record of an operation that returns names.
RecordNames(op, index, names) ==
  [op |-> op, name |-> "-", arg |-> RelaxedOf(NoValue), index |-> index,
   out |-> ReturnedNone, names |-> names, trace |-> <<>>,
   pre |-> [backends |-> backends, db |-> db, reg |-> reg, closed |-> closed,
            wasClosed |-> wasClosed]]

Init ==
  /\ backends = <<>>
  /\ db = {}
  /\ reg = <<>>
  /\ loc \in Locations
  /\ closed = FALSE
  /\ wasClosed = FALSE
  /\ setups = 0
  /\ last = Idle

\* Registry.bind.  A SQLiteBackend that has been closed is not used again.
Bind(b) ==
  /\ last = Idle
  /\ Len(backends) < MaxChain
  /\ b = SQLITE => ~closed
  /\ backends' = Append(backends, b)
  /\ last' = Idle
  /\ UNCHANGED <<db, reg, loc, closed, wasClosed, setups>>

\* b0.set(name, value), called on the backend directly: creates the register.
BackendSet(name, value) ==
  /\ last = Idle
  /\ setups < MaxSetup
  /\ ~closed
  /\ db' = SQLiteBackend_set(db, name, value)
  /\ setups' = setups + 1
  /\ last' = Idle
  /\ UNCHANGED <<backends, reg, loc, closed, wasClosed>>

\* b1.register(name, getter, setter)
Register(name, pair, cell) ==
  /\ last = Idle
  /\ setups < MaxSetup
  /\ reg' = DynamicBackend_register(reg, name, pair[1], pair[2], cell)
  /\ setups' = setups + 1
  /\ last' = Idle
  /\ UNCHANGED <<backends, db, loc, closed, wasClosed>>

\* A call of the registry, the repository or the server: the program is
\* sequential, so a call starts when the one before has returned.
Apply(op, name, arg, r) ==
  /\ last = Idle
  /\ db' = r.S.db
  /\ reg' = r.S.reg
  /\ last' = Record(op, name, arg, r)
  /\ UNCHANGED <<backends, loc, closed, wasClosed, setups>>

Get(name) == Apply("get", name, RelaxedOf(NoValue), Registry_get(Storage, backends, name))

Set(name, value) == Apply("set", name, value, Registry_set(Storage, backends, name, value))

Delete(wildcard) ==
  Apply("delete", wildcard, RelaxedOf(NoValue), Registry_delete(Storage, backends, wildcard))

Access(name, value) ==
  Apply("access", name, RelaxedOf(value), Repository_access(Storage, backends, name, value))

HandleAccess(name, value) ==
  Apply("handle_access", name, RelaxedOf(value),
        Server_handle_access(Storage, backends, name, value))

\* Registry.close
Close ==
  LET r == Registry_close(Storage, backends)
  IN  /\ last = Idle
      /\ backends' = <<>>
      /\ db' = r.S.db
      /\ reg' = r.S.reg
      /\ closed' = r.S.closed
      /\ wasClosed' = TRUE
      /\ last' = Record("close", "-", RelaxedOf(NoValue), r)
      /\ UNCHANGED <<loc, setups>>

\* An operation that reads names and changes nothing.
Read(op, index, names) ==
  /\ last = Idle
  /\ last' = RecordNames(op, index, names)
  /\ UNCHANGED <<backends, db, reg, loc, closed, wasClosed, setups>>

Keys == Read("keys", 0, Registry_keys(Storage, backends))

GetNameAtIndex(index) ==
  Read("get_name_at_index", index, Registry_get_name_at_index(Storage, backends, index))

HandleList(index) ==
  Read("handle_list", index, <<Server_handle_list(Storage, backends, index)>>)

\* The caller takes what the operation returned or raised.
Return ==
  /\ last # Idle
  /\ last' = Idle
  /\ UNCHANGED <<backends, db, reg, loc, closed, wasClosed, setups>>

Next ==
  \/ \E b \in BackendIds : Bind(b)
  \/ \E name \in Names, value \in SeedValues : BackendSet(name, value)
  \/ \E name \in Names, pair \in GetSetPairs, cell \in SeedValues : Register(name, pair, cell)
  \/ \E name \in Names : Get(name)
  \/ \E name \in Names, value \in NativeValues : Set(name, value)
  \/ \E wildcard \in Wildcards : Delete(wildcard)
  \/ \E name \in Names, value \in RequestValues : Access(name, value)
  \/ \E name \in Names, value \in RequestValues : HandleAccess(name, value)
  \/ Return

Spec == Init /\ [][Next]_vars

(* The registry over its whole life, with the operations on names: close,  *)
(* keys, get_name_at_index and the List service, registers of any name,    *)
(* and fewer values.                                                       *)
NameSeeds == {Bit(<<TRUE>>), Integer8(<<1, 2>>)}
NamePairs == {<<"var", "none">>, <<"var", "store">>}
NameRequests == {EmptyValue, Bit(<<FALSE>>)}
NameNatives == {[py |-> "bool", v |-> FALSE]}

NextNames ==
  \/ \E b \in BackendIds : Bind(b)
  \/ \E name \in AnyNames, value \in NameSeeds : BackendSet(name, value)
  \/ \E name \in AnyNames, pair \in NamePairs, cell \in NameSeeds : Register(name, pair, cell)
  \/ \E name \in AnyNames : Get(name)
  \/ \E name \in AnyNames, value \in NameNatives : Set(name, value)
  \/ \E wildcard \in AnyWildcards : Delete(wildcard)
  \/ \E name \in AnyNames, value \in NameRequests : Access(name, value)
  \/ \E name \in AnyNames, value \in NameRequests : HandleAccess(name, value)
  \/ Close
  \/ Keys
  \/ \E index \in Indexes : GetNameAtIndex(index)
  \/ \E index \in ListIndexes : HandleList(index)
  \/ Return

SpecNames == Init /\ [][NextNames]_vars

(* A ValueProxy on its own: `last` is the proxy and its latest assign,     *)
(* [op, before, source, kind, value]: value is the Value the proxy holds,  *)
(* before the one it held when assign(source) was called, kind "ok" or the *)
(* exception assign raised.  No registry is involved.                      *)
NumericOpts == {"bit"} \cup IntegerOpts \cup NaturalOpts \cup RealOpts
ArrayOpts == NumericOpts \cup {"string", "unstructured"}

\* Elements the arrays are made of: 1.5 and NaN for the reals, bytes "A" and
\* "B" for strings.
Elements(opt) ==
  IF opt = "bit" THEN {FALSE, TRUE}
  ELSE IF opt \in RealOpts THEN {3, NaN}
  ELSE IF opt \in {"string", "unstructured"} THEN {65, 66}
  ELSE {0, 1}

ArraysOf(opt) ==
  UNION {[1..n -> Elements(opt)] : n \in 0..MaxLen}

AssignValues ==
  {EmptyValue} \cup UNION {{[opt |-> o, val |-> a] : a \in ArraysOf(o)} : o \in ArrayOpts}

\* What is assigned: Values, a ValueProxy, and native bool, int, float, str,
\* bytes and lists.
AssignSources ==
  {RelaxedOf(v) : v \in AssignValues}
    \cup {ProxyOf(Integer8(<<1, 0>>))}
    \cup { [py |-> "bool", v |-> TRUE], [py |-> "int", v |-> 1], [py |-> "float", v |-> 3],
           [py |-> "str", v |-> <<65>>], [py |-> "bytes", v |-> <<65, 66>>],
           [py |-> "list", v |-> <<>>],
           [py |-> "list", v |-> <<[py |-> "int", v |-> 1], [py |-> "float", v |-> NaN]>>],
           [py |-> "list", v |-> <<[py |-> "float", v |-> 5], [py |-> "float", v |-> 3]>>] }

\* What _strictify is given to make the Value of a new proxy: a Value, a
\* ValueProxy and native scalars and lists, negative integers among them.
ConstructSources ==
  { RelaxedOf(Natural64(<<1, 0>>)), ProxyOf(Integer8(<<1, 0>>)),
    [py |-> "bool", v |-> TRUE], [py |-> "int", v |-> 1], [py |-> "int", v |-> -1],
    [py |-> "float", v |-> 3],
    [py |-> "str", v |-> <<65>>], [py |-> "bytes", v |-> <<65, 66>>],
    [py |-> "list", v |-> <<>>],
    [py |-> "list", v |-> <<[py |-> "bool", v |-> TRUE], [py |-> "bool", v |-> FALSE]>>],
    [py |-> "list", v |-> <<[py |-> "bool", v |-> TRUE], [py |-> "int", v |-> 0]>>],
    [py |-> "list", v |-> <<[py |-> "int", v |-> 1], [py |-> "int", v |-> -1]>>],
    [py |-> "list", v |-> <<[py |-> "bool", v |-> TRUE], [py |-> "float", v |-> 3]>>],
    [py |-> "list", v |-> <<[py |-> "int", v |-> -1], [py |-> "float", v |-> NaN]>>] }

NewProxy(value) ==
  [op |-> "ValueProxy", before |-> value, source |-> RelaxedOf(NoValue),
   kind |-> "ok", value |-> value]

InitAssign ==
  /\ backends = <<>>
  /\ db = {}
  /\ reg = <<>>
  /\ loc = LocationVolatile
  /\ closed = FALSE
  /\ wasClosed = FALSE
  /\ setups = 0
  /\ last \in {NewProxy(value) : value \in AssignValues}

\* ValueProxy.assign(source)
Assign(source) ==
  LET r == ValueProxy_assign(last.value, source)
  IN  /\ last' = [op |-> "assign", before |-> last.value, source |-> source,
                  kind |-> r.kind, value |-> r.value]
      /\ UNCHANGED <<backends, db, reg, loc, closed, wasClosed, setups>>

\* ValueProxy(_strictify(source)): a new proxy that holds a copy of the Value
\* _strictify returned.
Construct(source) ==
  /\ last' = [op |-> "__init__", before |-> last.value, source |-> source,
              kind |-> "ok", value |-> Strictify(source)]
  /\ UNCHANGED <<backends, db, reg, loc, closed, wasClosed, setups>>

NextAssign ==
  \/ \E source \in AssignSources : Assign(source)
  \/ \E source \in ConstructSources : Construct(source)

SpecAssign == InitAssign /\ [][NextAssign]_vars

(* The two backends on their own, called directly: `last` is the latest   *)
(* call, [op, b, name, names, arg, pair, out, count, invoked, pre]: names  *)
(* is the list given to delete or returned by keys, pair and arg the       *)
(* (getter, setter) and the variable they share given to register, arg the *)
(* Value given to set, out what get returned or what the call raised,      *)
(* count what count returned, invoked the bindings whose getter or setter  *)
(* ran, pre the storage at the call.                                       *)
BackendLocations == {"", ":memory:", ":MEMORY:", "/var/registers.db"}
BackendValues == {Bit(<<TRUE>>), Integer8(<<1, 2>>)}
DeleteLists == {<<>>, <<"x">>, <<"y">>, <<"y", "x">>}
Range(seq) == {seq[i] : i \in 1..Len(seq)}

Called(op, b, name, names, arg, pair, out, count, invoked) ==
  [op |-> op, b |-> b, name |-> name, names |-> names, arg |-> arg, pair |-> pair,
   out |-> out, count |-> count, invoked |-> invoked,
   pre |-> [db |-> db, reg |-> reg, closed |-> closed]]

NoCall ==
  [op |-> "-", b |-> "-", name |-> "-", names |-> <<>>, arg |-> NoValue,
   pair |-> <<"-", "-">>, out |-> ReturnedNone, count |-> 0, invoked |-> <<>>,
   pre |-> [db |-> {}, reg |-> <<>>, closed |-> FALSE]]

InitBackend ==
  /\ backends = <<>>
  /\ db = {}
  /\ reg = <<>>
  /\ loc \in BackendLocations
  /\ closed = FALSE
  /\ wasClosed = FALSE
  /\ setups = 0
  /\ last = NoCall

\* A call on backend b; the connection of a closed SQLiteBackend is not used.
BackendCall(b, S, rec) ==
  /\ last = NoCall
  /\ b = SQLITE => ~closed
  /\ db' = S.db
  /\ reg' = S.reg
  /\ closed' = S.closed
  /\ last' = rec
  /\ UNCHANGED <<backends, loc, wasClosed, setups>>

\* DynamicBackend.register(name, getter, setter)
BackendRegister(name, pair, cell) ==
  BackendCall(DYNAMIC,
    [Storage EXCEPT !.reg = DynamicBackend_register(reg, name, pair[1], pair[2], cell)],
    Called("register", DYNAMIC, name, <<>>, cell, pair, ReturnedNone, 0, <<>>))

\* Backend.get(name)
BackendGet(b, name) ==
  LET ent == Backend_get(Storage, b, name)
      i == ItemIndex(reg, name)
  IN  BackendCall(b, Storage,
        Called("get", b, name, <<>>, NoValue, <<"-", "-">>,
               Outcome(ent.kind, ent.value, ent.mutable, Backend_persistent(Storage, b)), 0,
               IF b = DYNAMIC /\ i # 0 THEN <<reg[i]>> ELSE <<>>))

\* Backend.set(name, value)
BackendSetValue(b, name, value) ==
  LET w == Backend_set(Storage, b, name, value)
      i == ItemIndex(reg, name)
  IN  BackendCall(b, w.S,
        Called("set", b, name, <<>>, value, <<"-", "-">>,
               IF w.kind = "ok" THEN ReturnedNone ELSE Raised(w.kind), 0,
               IF w.invoked THEN <<reg[i]>> ELSE <<>>))

\* Backend.delete(names)
BackendDelete(b, names) ==
  BackendCall(b, Backend_delete(Storage, b, Range(names)),
    Called("delete", b, "-", names, NoValue, <<"-", "-">>, ReturnedNone, 0, <<>>))

\* Backend.close()
BackendClose(b) ==
  BackendCall(b, Backend_close(Storage, b),
    Called("close", b, "-", <<>>, NoValue, <<"-", "-">>, ReturnedNone, 0, <<>>))

\* Backend.keys()
BackendKeys(b) ==
  BackendCall(b, Storage,
    Called("keys", b, "-", Backend_keys(Storage, b), NoValue, <<"-", "-">>,
           ReturnedNone, 0, <<>>))

\* Backend.count()
BackendCount(b) ==
  BackendCall(b, Storage,
    Called("count", b, "-", <<>>, NoValue, <<"-", "-">>, ReturnedNone,
           Backend_count(Storage, b), <<>>))

\* SQLiteBackend(location), at the location of the backend that was closed:
\* a file has the rows it had, a database in memory starts empty.
BackendOpen ==
  /\ last = NoCall
  /\ closed
  /\ closed' = FALSE
  /\ last' = Called("SQLiteBackend", SQLITE, "-", <<>>, NoValue, <<"-", "-">>,
                    ReturnedNone, 0, <<>>)
  /\ UNCHANGED <<backends, db, reg, loc, wasClosed, setups>>

\* The caller takes what the call returned or raised.
BackendReturn ==
  /\ last # NoCall
  /\ last' = NoCall
  /\ UNCHANGED <<backends, db, reg, loc, closed, wasClosed, setups>>

NextBackend ==
  \/ \E name \in Names, pair \in GetSetPairs, cell \in BackendValues :
       BackendRegister(name, pair, cell)
  \/ \E b \in BackendIds, name \in Names : BackendGet(b, name)
  \/ \E b \in BackendIds, name \in Names, value \in BackendValues :
       BackendSetValue(b, name, value)
  \/ \E b \in BackendIds, names \in DeleteLists : BackendDelete(b, names)
  \/ \E b \in BackendIds : BackendClose(b)
  \/ \E b \in BackendIds : BackendKeys(b)
  \/ \E b \in BackendIds : BackendCount(b)
  \/ BackendOpen
  \/ BackendReturn

SpecBackend == InitBackend /\ [][NextBackend]_vars

(* Node: its registry is Registry([_reg_db, _reg_dynamic]), and            *)
(* create_register writes one of the two backends directly.  What is       *)
(* created is [py, v, pair]: py = "Value" or "ValueProxy" with the value   *)
(* v, "callable" with the getter pair[1], "tuple" with the (getter,        *)
(* setter) pair; v is then the variable the functions share.  `last` is    *)
(* the latest call, [op, name, created, overwrite, out, pre].              *)
NodeChain == <<SQLITE, DYNAMIC>>
NodeValues == {Bit(<<TRUE>>), Integer8(<<1, 2>>)}
Creations ==
  {[py |-> py, v |-> v, pair |-> <<"-", "-">>] : py \in {"Value", "ValueProxy"}, v \in NodeValues}
    \cup {[py |-> "callable", v |-> v, pair |-> <<g, "none">>] :
            v \in NodeValues, g \in {"var", "raise"}}
    \cup {[py |-> "tuple", v |-> v, pair |-> pair] :
            v \in NodeValues, pair \in GetSetPairs \ {<<"var", "none">>, <<"raise", "none">>}}

\* A create_register that does not look whether the register exists.
Node_create_register_AlwaysOverwrites(S, name, created, overwrite) ==
  IF created.py \in {"Value", "ValueProxy"}
    THEN Result([S EXCEPT !.db = SQLiteBackend_set(S.db, name, created.v)], ReturnedNone, <<>>)
  ELSE Result([S EXCEPT !.reg = DynamicBackend_register(S.reg, name, created.pair[1],
                                                        created.pair[2], created.v)],
              ReturnedNone, <<>>)

\* Node.create_register(name, value_or_getter_or_getter_setter, overwrite)
Node_create_register(S, name, created, overwrite) ==
  LET r == Registry_get(S, NodeChain, name)
  IN  IF ~overwrite /\ IsRaised(r.out) THEN Result(S, r.out, r.trace)
      ELSE IF ~overwrite /\ r.out # ReturnedNone THEN Result(S, ReturnedNone, r.trace)
      ELSE IF created.py \in {"Value", "ValueProxy"}
        THEN Result([S EXCEPT !.db = SQLiteBackend_set(S.db, name, created.v)],
                    ReturnedNone, <<>>)
      ELSE Result([S EXCEPT !.reg = DynamicBackend_register(S.reg, name, created.pair[1],
                                                            created.pair[2], created.v)],
                  ReturnedNone, <<>>)

NodeCalled(op, name, created, overwrite, out) ==
  [op |-> op, name |-> name, created |-> created, overwrite |-> overwrite, out |-> out,
   pre |-> [db |-> db, reg |-> reg, closed |-> closed]]

NodeIdle ==
  [op |-> "-", name |-> "-", created |-> [py |-> "-", v |-> NoValue, pair |-> <<"-", "-">>],
   overwrite |-> FALSE, out |-> ReturnedNone,
   pre |-> [db |-> {}, reg |-> <<>>, closed |-> FALSE]]

\* Node.__init__
InitNode ==
  /\ backends = NodeChain
  /\ db = {}
  /\ reg = <<>>
  /\ loc \in Locations
  /\ closed = FALSE
  /\ wasClosed = FALSE
  /\ setups = 0
  /\ last = NodeIdle

CreateRegister(name, created, overwrite) ==
  LET r == Node_create_register(Storage, name, created, overwrite)
  IN  /\ last = NodeIdle
      /\ db' = r.S.db
      /\ reg' = r.S.reg
      /\ last' = NodeCalled("create_register", name, created, overwrite, r.out)
      /\ UNCHANGED <<backends, loc, closed, wasClosed, setups>>

\* node.registry.delete(name)
NodeDelete(name) ==
  LET r == Registry_delete(Storage, backends, name)
  IN  /\ last = NodeIdle
      /\ db' = r.S.db
      /\ reg' = r.S.reg
      /\ last' = NodeCalled("delete", name, NodeIdle.created, FALSE, r.out)
      /\ UNCHANGED <<backends, loc, closed, wasClosed, setups>>

\* The caller takes what the call returned or raised.
NodeReturn ==
  /\ last # NodeIdle
  /\ last' = NodeIdle
  /\ UNCHANGED <<backends, db, reg, loc, closed, wasClosed, setups>>

NextNode ==
  \/ \E name \in Names, created \in Creations, overwrite \in BOOLEAN :
       CreateRegister(name, created, overwrite)
  \/ \E name \in Names : NodeDelete(name)
  \/ NodeReturn

SpecNode == InitNode /\ [][NextNode]_vars

(* Tasks that run Registry.set, Repository.access and Registry.delete on   *)
(* the register "x" of one registry at the same time.  Each runs the       *)
(* statements of its method in order, one backend call per step, and any   *)
(* other task may run between two steps; a task may be abandoned between   *)
(* two steps.  `last` is [tasks, writes, initial]: tasks[t] is             *)
(* [op, arg, pc, i, e, c, out, wrote, raced, at]: pc the next statement,   *)
(* i the place in the chain of the backend b of the loop, e what b.get     *)
(* returned, c the Value assign made, out what the call returned or        *)
(* raised; writes lists the b.set calls made, in order, as [t, b, value];  *)
(* initial is the storage the tasks began with.  wrote says that the task  *)
(* called b.set, raced that a delete removed the name from b between the   *)
(* task's b.get and its b.set, at the statement a task was abandoned at.   *)
MaxTasks == 2
Tasks == 1..MaxTasks
TaskName == "x"
TaskSeeds == {Integer8(<<1, 2>>), String(<<65>>)}
TaskValues == {Real64(<<3, 5>>), Natural64(<<0, 1>>), String(<<66, 66>>)}
TaskPairs == {<<"var", "store">>, <<"var", "none">>}

NewTask ==
  [op |-> "-", arg |-> NoValue, pc |-> "new", i |-> 1, e |-> NoEntry, c |-> NoValue,
   out |-> ReturnedNone, wrote |-> FALSE, raced |-> FALSE, at |-> "-"]

TaskDone(task, out) == [task EXCEPT !.pc = "done", !.out = out]

\* Registry.set / Repository.access: e = b.get(name), and the branch taken on it
Task_read(S, ch, task) ==
  LET b == ch[task.i]
      ent == Backend_get(S, b, TaskName)
  IN  IF ent.kind = "BackendError" THEN TaskDone(task, Raised("BackendError"))
      ELSE IF ent.kind = "None"
        THEN IF task.i < Len(ch) THEN [task EXCEPT !.i = @ + 1]
             ELSE IF task.op = "set" THEN TaskDone(task, Raised("MissingRegisterError"))
             ELSE TaskDone(task, Access_no_register)
      ELSE IF task.op = "set" \/ Access_writes(ent, task.arg)
        THEN [task EXCEPT !.pc = "assign", !.e = ent]
      ELSE TaskDone([task EXCEPT !.e = ent],
                    ValueWithFlags(ent.value, ent.mutable, Backend_persistent(S, b)))

\* c = ValueProxy(e.value); c.assign(value)
Task_assign(S, ch, task) ==
  LET a == ValueProxy_assign(task.e.value, RelaxedOf(task.arg))
  IN  IF a.kind = "ok" THEN [task EXCEPT !.pc = "write", !.c = a.value]
      ELSE IF task.op = "access" /\ Access_catches(a.kind)
        THEN TaskDone(task, ValueWithFlags(task.e.value, task.e.mutable,
                                           Backend_persistent(S, ch[task.i])))
      ELSE TaskDone(task, Raised(a.kind))

\* A write that is dropped when the register is no longer what the task read.
Task_write_IfUnchanged(S, ch, task) ==
  LET same == Backend_get(S, ch[task.i], TaskName) = task.e
      w == IF same THEN Backend_set(S, ch[task.i], TaskName, task.c)
           ELSE [S |-> S, kind |-> "ok", invoked |-> FALSE]
      t1 == [task EXCEPT !.wrote = TRUE]
  IN  IF w.kind # "ok" THEN [S |-> w.S, task |-> TaskDone(t1, Raised(w.kind))]
      ELSE IF task.op = "set" THEN [S |-> w.S, task |-> TaskDone(t1, ReturnedNone)]
      ELSE [S |-> w.S, task |-> [t1 EXCEPT !.pc = "reread"]]

\* A write that stores the first element only.
Task_write_Partial(S, ch, task) ==
  LET w == Backend_set(S, ch[task.i], TaskName,
                       [task.c EXCEPT !.val = SubSeq(task.c.val, 1, 1)])
      t1 == [task EXCEPT !.wrote = TRUE]
  IN  IF w.kind # "ok" THEN [S |-> w.S, task |-> TaskDone(t1, Raised(w.kind))]
      ELSE IF task.op = "set" THEN [S |-> w.S, task |-> TaskDone(t1, ReturnedNone)]
      ELSE [S |-> w.S, task |-> [t1 EXCEPT !.pc = "reread"]]

\* b.set(name, c.value): [S, task]
Task_write(S, ch, task) ==
  LET w == Backend_set(S, ch[task.i], TaskName, task.c)
      t1 == [task EXCEPT !.wrote = TRUE]
  IN  IF w.kind # "ok" THEN [S |-> w.S, task |-> TaskDone(t1, Raised(w.kind))]
      ELSE IF task.op = "set" THEN [S |-> w.S, task |-> TaskDone(t1, ReturnedNone)]
      ELSE [S |-> w.S, task |-> [t1 EXCEPT !.pc = "reread"]]

\* Repository.access: e = b.get(name) after the write, then e.value of the
\* return statement, an AttributeError when e is None.
Task_reread(S, ch, task) ==
  LET b == ch[task.i]
      ent == Backend_get(S, b, TaskName)
  IN  IF ent.kind = "BackendError" THEN TaskDone(task, Raised("BackendError"))
      ELSE IF ent.kind = "None" THEN TaskDone(task, Raised("AttributeError"))
      ELSE TaskDone([task EXCEPT !.e = ent],
                    ValueWithFlags(ent.value, ent.mutable, Backend_persistent(S, b)))

\* Registry.delete: one turn of the loop, b.delete of the keys that match
Task_delete(S, ch, task) ==
  LET b == ch[task.i]
      names == {n \in Range(Backend_keys(S, b)) : fnmatchcase(n, TaskName)}
  IN  [S |-> Backend_delete(S, b, names),
       task |-> IF task.i < Len(ch) THEN [task EXCEPT !.i = @ + 1]
                ELSE TaskDone(task, ReturnedNone)]

InitialStorages ==
  {st \in [db : {{}} \cup {SQLiteBackend_set({}, TaskName, v) : v \in TaskSeeds},
           reg : {<<>>} \cup {DynamicBackend_register(<<>>, TaskName, pair[1], pair[2], v) :
                                pair \in TaskPairs, v \in TaskSeeds}] :
     st.db # {} \/ st.reg # <<>>}

InitTasks ==
  /\ backends = NodeChain
  /\ \E st \in InitialStorages :
       /\ db = st.db
       /\ reg = st.reg
       /\ last = [tasks |-> [t \in Tasks |-> NewTask], writes |-> <<>>, initial |-> st]
  /\ loc = LocationVolatile
  /\ closed = FALSE
  /\ wasClosed = FALSE
  /\ setups = 0

\* A step of task t that leaves it as task and the storage as S.
TaskStep(t, S, task, writes) ==
  /\ db' = S.db
  /\ reg' = S.reg
  /\ last' = [last EXCEPT !.tasks[t] = task, !.writes = writes]
  /\ UNCHANGED <<backends, loc, closed, wasClosed, setups>>

\* A task calls Registry.set(name, value), access(name, value) or delete(name).
TaskStart(t, op, arg) ==
  /\ last.tasks[t].pc = "new"
  /\ TaskStep(t, Storage,
       [NewTask EXCEPT !.op = op, !.arg = arg,
                       !.pc = IF op = "delete" THEN "delete" ELSE "read"],
       last.writes)

TaskRead(t) ==
  /\ last.tasks[t].pc = "read"
  /\ TaskStep(t, Storage, Task_read(Storage, backends, last.tasks[t]), last.writes)

TaskAssign(t) ==
  /\ last.tasks[t].pc = "assign"
  /\ TaskStep(t, Storage, Task_assign(Storage, backends, last.tasks[t]), last.writes)

TaskWrite(t) ==
  LET r == Task_write(Storage, backends, last.tasks[t])
  IN  /\ last.tasks[t].pc = "write"
      /\ TaskStep(t, r.S, r.task,
           Append(last.writes, [t |-> t, b |-> backends[last.tasks[t].i],
                                value |-> last.tasks[t].c]))

TaskReread(t) ==
  /\ last.tasks[t].pc = "reread"
  /\ TaskStep(t, Storage, Task_reread(Storage, backends, last.tasks[t]), last.writes)

\* The delete of one backend; the tasks between their get and their set on
\* that backend are marked when the name goes.
TaskDelete(t) ==
  LET task == last.tasks[t]
      r == Task_delete(Storage, backends, task)
      gone == TaskName \in Range(Backend_keys(Storage, backends[task.i]))
  IN  /\ task.pc = "delete"
      /\ db' = r.S.db
      /\ reg' = r.S.reg
      /\ last' = [last EXCEPT !.tasks =
                    [u \in Tasks |->
                      IF u = t THEN r.task
                      ELSE IF gone /\ last.tasks[u].pc \in {"assign", "write"}
                                /\ last.tasks[u].i = task.i
                        THEN [last.tasks[u] EXCEPT !.raced = TRUE]
                      ELSE last.tasks[u]]]
      /\ UNCHANGED <<backends, loc, closed, wasClosed, setups>>

\* The task is cancelled, or abandoned, before its next statement.
TaskCancel(t) ==
  /\ last.tasks[t].pc \in {"read", "assign", "write", "reread", "delete"}
  /\ TaskStep(t, Storage,
       [last.tasks[t] EXCEPT !.pc = "cancelled", !.at = last.tasks[t].pc], last.writes)

NextTasks ==
  \/ \E t \in Tasks, op \in {"set", "access"}, arg \in TaskValues : TaskStart(t, op, arg)
  \/ \E t \in Tasks : TaskStart(t, "delete", NoValue)
  \/ \E t \in Tasks : TaskRead(t)
  \/ \E t \in Tasks : TaskAssign(t)
  \/ \E t \in Tasks : TaskWrite(t)
  \/ \E t \in Tasks : TaskReread(t)
  \/ \E t \in Tasks : TaskDelete(t)
  \/ \E t \in Tasks : TaskCancel(t)

SpecTasks == InitTasks /\ [][NextTasks]_vars

---------------------------------------------------------------------------
(* The Access handlers of the server as coroutines of one event loop.      *)
(* Each request is handled by its own run of Server._handle_access; a run  *)
(* goes statement by statement (get, assign, set, reread) and the loop     *)
(* gives the turn to another run only where the running one awaits.  last  *)
(* is [handlers, running, order, initial]: the runs, the one that has the  *)
(* turn (0: none), the runs in the order they began, and the storage at    *)
(* the start.                                                              *)


\* A handler that awaits after its registry.set.
HandleAccessAwaits_AfterSet == {"set"}

\* The statements of _handle_access that await: there is none.
HandleAccessAwaits == {}

NewHandler == [arg |-> NoValue, pc |-> "new", v |-> ReturnedNone, out |-> ReturnedNone,
               stored |-> NoValue, wrote |-> FALSE]

\* v = self._registry.get(name), and the condition of the if statement
Handle_get(S, ch, h) ==
  LET v == Registry_get(S, ch, TaskName).out
  IN  IF IsRaised(v) THEN [h EXCEPT !.pc = "done", !.out = v]
      ELSE IF v.kind = "value" /\ v.mutable /\ h.arg.opt # "empty"
        THEN [h EXCEPT !.pc = "assign", !.v = v]
      ELSE [h EXCEPT !.pc = "done", !.v = v, !.out = Server_respond(S, v, <<>>).out]

\* v.assign(request.value)
Handle_assign(h) ==
  LET a == ValueProxy_assign(h.v.value, RelaxedOf(h.arg))
  IN  IF a.kind = "ok" THEN [h EXCEPT !.pc = "set", !.v.value = a.value]
      ELSE IF Server_catches(a.kind) THEN [h EXCEPT !.pc = "reread"]
      ELSE [h EXCEPT !.pc = "done", !.out = Raised(a.kind)]

\* self._registry.set(name, v): [S, h]
Handle_set(S, ch, h) ==
  LET st == Registry_set(S, ch, TaskName, ProxyOf(h.v.value))
      \* the Backend.set call of the trace
      k == CHOOSE n \in 1..Len(st.trace) : st.trace[n].call = "set"
  IN  IF IsRaised(st.out)
        THEN IF Server_catches(st.out.kind) THEN [S |-> st.S, h |-> [h EXCEPT !.pc = "reread"]]
             ELSE [S |-> st.S, h |-> [h EXCEPT !.pc = "done", !.out = st.out]]
      ELSE [S |-> st.S,
            h |-> [h EXCEPT !.pc = "reread", !.wrote = TRUE, !.stored = st.trace[k].value]]

\* v = self._registry.get(name) after the write, and the response
Handle_reread(S, ch, h) ==
  [h EXCEPT !.pc = "done", !.out = Server_read_back(S, ch, TaskName, <<>>).out]

InitServer ==
  /\ backends = NodeChain
  /\ \E st \in InitialStorages :
       /\ db = st.db
       /\ reg = st.reg
       /\ last = [handlers |-> [t \in Tasks |-> NewHandler], running |-> 0,
                  order |-> <<>>, initial |-> st]
  /\ loc = LocationVolatile
  /\ closed = FALSE
  /\ wasClosed = FALSE
  /\ setups = 0

\* The statement at pc of handler t has run and left it as h, the storage
\* as S: the handler keeps the turn unless it is done or awaits there.
HandlerStep(t, S, h, order) ==
  /\ last.running \in {0, t}
  /\ db' = S.db
  /\ reg' = S.reg
  /\ last' = [last EXCEPT !.handlers[t] = h,
                          !.order = order,
                          !.running = IF h.pc = "done"
                                           \/ last.handlers[t].pc \in HandleAccessAwaits
                                        THEN 0 ELSE t]
  /\ UNCHANGED <<backends, loc, closed, wasClosed, setups>>

\* An Access request arrives and a run of the handler is scheduled for it.
Dispatch(t, value) ==
  /\ last.handlers[t].pc = "new"
  /\ last' = [last EXCEPT !.handlers[t] = [NewHandler EXCEPT !.arg = value, !.pc = "get"]]
  /\ UNCHANGED <<backends, db, reg, loc, closed, wasClosed, setups>>

HandlerGet(t) ==
  /\ last.handlers[t].pc = "get"
  /\ HandlerStep(t, Storage, Handle_get(Storage, backends, last.handlers[t]),
                 Append(last.order, t))

HandlerAssign(t) ==
  /\ last.handlers[t].pc = "assign"
  /\ HandlerStep(t, Storage, Handle_assign(last.handlers[t]), last.order)

HandlerSet(t) ==
  LET r == Handle_set(Storage, backends, last.handlers[t])
  IN  /\ last.handlers[t].pc = "set"
      /\ HandlerStep(t, r.S, r.h, last.order)

HandlerReread(t) ==
  /\ last.handlers[t].pc = "reread"
  /\ HandlerStep(t, Storage, Handle_reread(Storage, backends, last.handlers[t]), last.order)

NextServer ==
  \/ \E t \in Tasks, value \in TaskValues \cup {EmptyValue} : Dispatch(t, value)
  \/ \E t \in Tasks : HandlerGet(t)
  \/ \E t \in Tasks : HandlerAssign(t)
  \/ \E t \in Tasks : HandlerSet(t)
  \/ \E t \in Tasks : HandlerReread(t)

SpecServer == InitServer /\ [][NextServer]_vars

---------------------------------------------------------------------------
(* What the claims speak of, in terms of the recorded operation. *)

\* The storage the recorded operation started from.
Pre == [db |-> last.pre.db, reg |-> last.pre.reg, loc |-> loc, closed |-> last.pre.closed]

IsAccess == last.op \in {"access", "handle_access"}
\* The Value of the Access request.
Requested == last.arg.v
\* The operation returned (value, mutable, persistent) to its caller.
Responded == last.out.kind \in {"value", "response"}
Payload(out) == <<out.value, out.mutable, out.persistent>>

BackendState(S, b) == IF b = SQLITE THEN S.db ELSE S.reg
StorageUnchanged == db = last.pre.db /\ reg = last.pre.reg

HasName(S, b, name) == \E k \in 1..Len(Backend_keys(S, b)) : Backend_keys(S, b)[k] = name
Owners(S, name) == {i \in 1..Len(backends) : HasName(S, backends[i], name)}
Owned(name) == Owners(Pre, name) # {}
\* The place in the chain of the first backend that has the register.
FirstOwner(name) == CHOOSE i \in Owners(Pre, name) : \A j \in Owners(Pre, name) : i <= j
OwnerId(name) == backends[FirstOwner(name)]
\* What the first owner's get gives, before the operation.
OwnerEntry(name) == Backend_get(Pre, OwnerId(name), name)

NoSetterRan == \A k \in 1..Len(last.trace) : last.trace[k].call # "setter"
NoBackendSet == \A k \in 1..Len(last.trace) : last.trace[k].call \notin {"set", "setter"}

\* The recorded access, called again on the storage S with the value v.
AccessAgain(S, v) ==
  IF last.op = "access" THEN Repository_access(S, backends, last.name, v)
  ELSE Server_handle_access(S, backends, last.name, v)

---------------------------------------------------------------------------
(* C1: the access transaction never raises: in every reachable state of    *)
(* the registry, delegated registers with a failing getter or setter       *)
(* included, access(name, value) ends with a (value, mutable, persistent)  *)
(* response.  The code lets BackendError (a getter's fault), a setter's    *)
(* exception and AssertionError (_do_convert) leave it.                    *)
C1_AccessNeverRaises == IsAccess => Responded

(* C2: when several backends of the chain have the same name, get, set and *)
(* access on it call only the backends up to the first owner, write only   *)
(* the first owner, return the first owner's copy and leave every other    *)
(* backend as it was; delete(name) removes the name from every backend of  *)
(* the chain.                                                              *)
C2_FirstOwnerOnly ==
  /\ (last.op \in {"get", "set", "access", "handle_access"} /\ Owned(last.name)) =>
       /\ \A k \in 1..Len(last.trace) :
            /\ \E i \in 1..FirstOwner(last.name) : last.trace[k].b = backends[i]
            /\ last.trace[k].call \in {"set", "setter"} => last.trace[k].b = OwnerId(last.name)
       /\ \A b \in BackendIds \ {OwnerId(last.name)} :
            BackendState(Storage, b) = BackendState(Pre, b)
       /\ (last.out.kind \in {"value", "response"}) =>
            last.out.value = Backend_get(Storage, OwnerId(last.name), last.name).value
  /\ (last.op = "delete" /\ last.name \in Names) =>
       \A i \in 1..Len(backends) : ~HasName(Storage, backends[i], last.name)

\* set("x", ...) wrote b0's copy while b1, bound second, has "x" too.
C2_Witness ==
  /\ last.op = "set" /\ last.out.kind = "None"
  /\ Len(backends) = 2 /\ backends[1] # backends[2]
  /\ Owners(Pre, last.name) = {1, 2}
  /\ BackendState(Storage, backends[1]) # BackendState(Pre, backends[1])

(* C3: access with an empty requested value is a pure read and idempotent: *)
(* it leaves the storage of every backend as it was, calls no Backend.set  *)
(* and no setter, and the same call made again ends the same way.          *)
C3_EmptyAccessIsPureRead ==
  (IsAccess /\ Requested = EmptyValue) =>
    /\ StorageUnchanged
    /\ NoBackendSet
    /\ AccessAgain(Storage, EmptyValue).out = last.out
    /\ AccessAgain(AccessAgain(Storage, EmptyValue).S, EmptyValue).out = last.out

\* An empty request read a mutable, non-empty register.
C3_Witness ==
  /\ IsAccess /\ Requested = EmptyValue
  /\ Responded /\ last.out.mutable /\ last.out.value = Bit(<<TRUE>>)

(* C4: an access write to a register whose first owner is a delegated      *)
(* register with a getter only is ignored: no setter runs, the storage is  *)
(* as it was, the call ends as the read of the register does, and when the *)
(* getter gives a value the response is that value with mutable = false.   *)
GetterOnly(name) ==
  /\ Owned(name)
  /\ OwnerId(name) = DYNAMIC
  /\ last.pre.reg[ItemIndex(last.pre.reg, name)].setter = "none"

C4_ImmutableWriteIgnored ==
  (IsAccess /\ Requested # EmptyValue /\ GetterOnly(last.name)) =>
    /\ NoSetterRan
    /\ StorageUnchanged
    /\ last.out = AccessAgain(Pre, EmptyValue).out
    /\ OwnerEntry(last.name).kind = "entry" =>
         /\ Responded
         /\ Payload(last.out) = <<OwnerEntry(last.name).value, FALSE, FALSE>>

\* bit[false] was sent to a getter-only register holding bit[true].
C4_Witness ==
  /\ IsAccess /\ Requested = Bit(<<FALSE>>) /\ GetterOnly(last.name)
  /\ Responded /\ last.out.value = Bit(<<TRUE>>)

(* C5: an access write whose value _do_convert cannot convert to the       *)
(* stored value's option and length (it returns None) is discarded: the    *)
(* storage is as it was and the response is the stored value with the      *)
(* owner's flags.                                                          *)
Unconvertible(name, v) ==
  /\ Owned(name)
  /\ OwnerEntry(name).kind = "entry"
  /\ v # EmptyValue
  /\ DoConvert(OwnerEntry(name).value, v) = ConvNone

Convertible(name, v) ==
  /\ Owned(name)
  /\ OwnerEntry(name).kind = "entry"
  /\ OwnerEntry(name).mutable
  /\ v # EmptyValue
  /\ DoConvert(OwnerEntry(name).value, v) \notin ConvFailures

C6_WriteThenReadBack ==
  (IsAccess /\ Convertible(last.name, Requested)) =>
    /\ \E k \in 1..Len(last.trace) :
         last.trace[k] =
           Call("set", OwnerId(last.name), DoConvert(OwnerEntry(last.name).value, Requested))
    /\ Responded
    /\ Payload(last.out) =
         <<Backend_get(Storage, OwnerId(last.name), last.name).value,
           Backend_get(Storage, OwnerId(last.name), last.name).mutable,
           Backend_persistent(Storage, OwnerId(last.name))>>

(* C7: access on a name no backend of the chain has returns (empty Value,  *)
(* mutable = false, persistent = false) and changes no backend, whatever   *)
(* the requested value.                                                    *)
C7_AccessUnknownName ==
  (IsAccess /\ ~Owned(last.name)) =>
    /\ Responded
    /\ Payload(last.out) = <<EmptyValue, FALSE, FALSE>>
    /\ StorageUnchanged
    /\ NoBackendSet

\* A non-empty value was sent for a name missing from a chain of two backends
\* that hold another register.
C7_Witness ==
  /\ IsAccess /\ ~Owned(last.name) /\ Requested # EmptyValue
  /\ Len(backends) = 2 /\ (db # {} \/ reg # <<>>)
  /\ Responded

(* C8: Registry.set on a name no backend has raises MissingRegisterError   *)
(* and creates nothing: the storage of every backend is as it was.         *)
C8_SetUnknownNameRaises ==
  (last.op = "set" /\ ~Owned(last.name)) =>
    /\ last.out.kind = "MissingRegisterError"
    /\ StorageUnchanged
    /\ NoBackendSet

\* set on a missing name with the SQLite backend, which creates on set, bound.
C8_Witness ==
  /\ last.op = "set" /\ ~Owned(last.name)
  /\ \E i \in 1..Len(backends) : backends[i] = SQLITE
  /\ last.out.kind = "MissingRegisterError"

(* C9: when assign raises ValueConversionError inside Registry.set, the    *)
(* error reaches the caller, no backend is written, and no backend after   *)
(* the first owner is called: the calls are the gets up to the first       *)
(* owner.                                                                  *)
AssignFails(name, value) ==
  /\ Owned(name)
  /\ OwnerEntry(name).kind = "entry"
  /\ DoConvert(OwnerEntry(name).value, Strictify(value)) = ConvNone

StoringOwner(name) ==
  /\ Owned(name)
  /\ \/ OwnerId(name) = SQLITE
     \/ last.pre.reg[ItemIndex(last.pre.reg, name)].setter = "store"

IsArray(value) == value.opt \notin {"empty", "string", "unstructured"}

C10_SetThenGet ==
  (last.op = "set" /\ last.out.kind = "None" /\ StoringOwner(last.name)) =>
    LET before == OwnerEntry(last.name).value
        after == Registry_get(Storage, backends, last.name).out
    IN  /\ after.kind = "value"
        /\ after.value = DoConvert(before, Strictify(last.arg))
        /\ after.value.opt = before.opt
        /\ IsArray(before) => Len(after.value.val) = Len(before.val)

\* bit[true] was set to False and reads back as bit[false].
C10_Witness ==
  /\ last.op = "set" /\ last.out.kind = "None" /\ StoringOwner(last.name)
  /\ OwnerEntry(last.name).value = Bit(<<TRUE>>)
  /\ last.arg = [py |-> "bool", v |-> FALSE]
  /\ Registry_get(Storage, backends, last.name).out.value = Bit(<<FALSE>>)

---------------------------------------------------------------------------
(* Claims on the life of the registry and on its names, checked under      *)
(* SpecNames.                                                              *)

\* The names a backend holds, as a set, read from its storage.
HeldNames(S, b) ==
  IF b = SQLITE THEN {r.name : r \in S.db} ELSE {S.reg[i].name : i \in 1..Len(S.reg)}
\* A set of names as the lexicographically sorted list.
SortedNames(names) == SelectSeq(NameOrder, LAMBDA n : n \in names)

RECURSIVE ConcatSortedKeys(_, _)
ConcatSortedKeys(S, ch) ==
  IF ch = <<>> THEN <<>>
  ELSE SortedNames(HeldNames(S, Head(ch))) \o ConcatSortedKeys(S, Tail(ch))

\* The case-sensitive glob of the wildcards used, spelled out.
Matches(name, wildcard) ==
  \/ wildcard = "*"
  \/ wildcard = "?" /\ name \in {"x", "y"}
  \/ wildcard = name

(* C11: close closes every bound backend and empties the chain; in every   *)
(* state after close, get returns None, set raises MissingRegisterError,   *)
(* keys is empty and access returns the empty response; a second close     *)
(* changes nothing and raises nothing.  The code lets bind put a backend   *)
(* on the chain of a closed registry (C12), after which these operations   *)
(* find registers again.                                                   *)
C11_AfterCloseChainEmpty ==
  /\ last.op = "close" =>
       /\ backends = <<>>
       /\ last.out.kind = "None"
       /\ \A i \in 1..Len(last.pre.backends) :
            IF last.pre.backends[i] = SQLITE THEN closed ELSE reg = <<>>
       /\ last.pre.wasClosed =>
            (db = last.pre.db /\ reg = last.pre.reg /\ closed = last.pre.closed)
  /\ last.pre.wasClosed =>
       /\ last.op = "get" => last.out.kind = "None"
       /\ last.op = "set" => last.out.kind = "MissingRegisterError"
       /\ last.op = "keys" => last.names = <<>>
       /\ IsAccess => (Responded /\ Payload(last.out) = <<EmptyValue, FALSE, FALSE>>)

(* C12: Closed is terminal: once close has been called, no sequence of     *)
(* Registry operations makes a register reachable through the registry     *)
(* again.  The code has no closed state: bind appends to the chain that    *)
(* close cleared.                                                          *)
C12_ClosedIsTerminal ==
  wasClosed =>
    /\ Registry_keys(Storage, backends) = <<>>
    /\ \A name \in AnyNames : Registry_get(Storage, backends, name).out.kind = "None"

(* C13: keys() is the concatenation, in bind order, of the sorted list of  *)
(* the names each bound backend holds at that moment: not re-sorted as a   *)
(* whole, a name held by two backends listed twice.                        *)
C13_KeysConcatenated ==
  last.op = "keys" => last.names = ConcatSortedKeys(Storage, backends)

\* Two backends are bound and the first one's name sorts after the second's.
C13_Witness ==
  /\ last.op = "keys"
  /\ backends = <<DYNAMIC, SQLITE>>
  /\ last.names = <<"y", "x">>

(* C14: get_name_at_index(i) returns element i (from 0) of keys() when     *)
(* 0 <= i < len(keys()) and None for every other integer i.  The code      *)
(* indexes a Python list, so a negative i down to -len(keys()) returns a   *)
(* name counted from the end.                                              *)
C14_IndexInRangeOnly ==
  last.op = "get_name_at_index" =>
    LET keys == ConcatSortedKeys(Storage, backends)
    IN  last.names = IF 0 <= last.index /\ last.index < Len(keys)
                       THEN <<keys[last.index + 1]>> ELSE <<>>

(* C15: the List service answers with an empty name exactly when the index *)
(* is not below the number of registers.  A backend accepts the empty      *)
(* string as a name, and then an index in range is answered with an empty  *)
(* name.                                                                   *)
C15_ListEmptyIffOutOfRange ==
  last.op = "handle_list" =>
    (last.names = <<"">> <=> last.index >= Len(ConcatSortedKeys(Storage, backends)))

(* C16: delete(wildcard) removes from every bound backend exactly the      *)
(* registers whose name matches the case-sensitive glob and leaves every   *)
(* other register (name, value, mutable flag) and every backend that is    *)
(* not bound as they were; it raises nothing, also when nothing matches.   *)
IsBound(b) == \E i \in 1..Len(backends) : backends[i] = b

C16_DeleteExactlyMatches ==
  last.op = "delete" =>
    /\ last.out.kind = "None"
    /\ db = IF IsBound(SQLITE)
              THEN {r \in last.pre.db : ~Matches(r.name, last.name)} ELSE last.pre.db
    /\ reg = IF IsBound(DYNAMIC)
               THEN SelectSeq(last.pre.reg, LAMBDA it : ~Matches(it.name, last.name))
               ELSE last.pre.reg

\* delete("?") took "x" from the SQLite backend and left its register "".
C16_Witness ==
  /\ last.op = "delete" /\ last.name = "?"
  /\ IsBound(SQLITE)
  /\ HeldNames(Pre, SQLITE) = {"", "x"}
  /\ HeldNames(Storage, SQLITE) = {""}
  /\ \E r \in db : r \in last.pre.db

---------------------------------------------------------------------------
(* Claims on ValueProxy.assign, checked under SpecAssign. *)

\* The Value _strictify makes of the source of the latest assign.
Source == Strictify(last.source)
Assigned == last.op = "assign"

(* C17: between numeric variants (bit, integerN, naturalN, realN), assign  *)
(* raises ValueConversionError exactly when the two array lengths differ,  *)
(* and succeeds for every pair of equal length, whatever the elements.     *)
(* The code calls round(x) on the elements that go to an integer or        *)
(* natural array, which raises ValueError on a NaN of a real source.       *)
C17_NumericFailsIffLengthsDiffer ==
  (Assigned /\ last.before.opt \in NumericOpts /\ Source.opt \in NumericOpts) =>
    IF Len(last.before.val) # Len(Source.val)
      THEN last.kind = "ValueConversionError"
      ELSE last.kind = "ok"

(* C18: assign between a numeric variant and a string or unstructured      *)
(* one, in either direction and for every pair of lengths, raises          *)
(* ValueConversionError and leaves the destination as it was.  With equal  *)
(* lengths the code converts the bytes of a string into a numeric          *)
(* destination, and stops on `assert False` for a numeric source and a     *)
(* string destination.                                                     *)
C18_NumericAndStringNeverConvert ==
  (/\ Assigned
   /\ \/ last.before.opt \in NumericOpts /\ Source.opt \in {"string", "unstructured"}
      \/ last.before.opt \in {"string", "unstructured"} /\ Source.opt \in NumericOpts) =>
    /\ last.kind = "ValueConversionError"
    /\ last.value = last.before

(* C19: a successful assign leaves the destination with the option it had  *)
(* and, for numeric arrays, the length it had; an assign that raises       *)
(* leaves the destination's option, length and contents as they were.      *)
C19_AssignKeepsOptionAndLength ==
  Assigned =>
    IF last.kind = "ok"
      THEN /\ last.value.opt = last.before.opt
           /\ last.before.opt \in NumericOpts => Len(last.value.val) = Len(last.before.val)
      ELSE last.value = last.before

\* A real array took the place of the two integers: 1.5 rounds to 2.
C19_Witness ==
  /\ Assigned /\ last.kind = "ok"
  /\ last.before = Integer8(<<0, 1>>)
  /\ Source = Real64(<<3, 3>>)
  /\ last.value = Integer8(<<2, 2>>)

(* C20: when the destination or the source of assign is the empty option,  *)
(* assign succeeds and the destination is exactly what it was.             *)
C20_EmptyIsSinkAndSource ==
  (Assigned /\ (last.before.opt = "empty" \/ Source.opt = "empty")) =>
    /\ last.kind = "ok"
    /\ last.value = last.before

\* An empty proxy was assigned a non-empty string and stays empty.
C20_Witness ==
  /\ Assigned /\ last.before = EmptyValue
  /\ Source = String(<<65>>)
  /\ last.kind = "ok" /\ last.value = EmptyValue

(* C21: between numeric arrays of equal length assign converts element by  *)
(* element: a bit destination receives (element != 0), an integer or       *)
(* natural destination the element rounded to the nearest integer with     *)
(* ties to the even one, a real destination the element as a float.  A NaN *)
(* has no rounded value; what assign does with it is the matter of C17.    *)
C21_Nearest(h) ==
  CHOOSE r \in -1..(h + 1) :
    /\ 2 * r - h \in {-1, 0, 1}
    /\ 2 * r # h => r % 2 = 0

C21_Element(to, opt, x) ==
  IF to = "bit" THEN Halves(opt, x) # 0
  ELSE IF to \in RealOpts THEN Halves(opt, x)
  ELSE C21_Nearest(Halves(opt, x))

C21_Rounded ==
  /\ Assigned
  /\ last.before.opt \in NumericOpts /\ Source.opt \in NumericOpts
  /\ Len(last.before.val) = Len(Source.val)
  /\ last.before.opt \in IntegerOpts \cup NaturalOpts =>
       \A i \in 1..Len(Source.val) : ~IsNaN(Source.opt, Source.val[i])

C21_ElementByElement ==
  C21_Rounded =>
    /\ last.kind = "ok"
    /\ last.value.opt = last.before.opt
    /\ Len(last.value.val) = Len(Source.val)
    /\ \A i \in 1..Len(Source.val) :
         last.value.val[i] = C21_Element(last.before.opt, Source.opt, Source.val[i])

\* [2.5, 1.5] into two integers gives [2, 2]: both ties go to the even side.
C21_Witness ==
  /\ Assigned /\ last.kind = "ok"
  /\ last.before.opt = "integer8"
  /\ Source = Real64(<<5, 3>>)
  /\ last.value = Integer8(<<2, 2>>)

(* C22: _strictify maps a bare bool, int or float to a one-element array   *)
(* of its family, a str to string, bytes to unstructured, a sequence of    *)
(* bools to bit[], a sequence of bools and ints to natural64[] when all    *)
(* are >= 0 and to integer64[] otherwise, a sequence with a float to       *)
(* real64[], an empty sequence to the empty Value, and a Value to itself.  *)
C22_Scalars(s) == IF s.py = "list" THEN s.v ELSE <<s>>

C22_Array(seq) ==
  IF seq = <<>> THEN EmptyValue
  ELSE IF \E i \in 1..Len(seq) : seq[i].py = "float"
    THEN Real64([i \in 1..Len(seq) |->
                  IF seq[i].py = "float" THEN seq[i].v
                  ELSE IF seq[i].py = "int" THEN 2 * seq[i].v
                  ELSE IF seq[i].v THEN 2 ELSE 0])
  ELSE IF \E i \in 1..Len(seq) : seq[i].py = "int"
    THEN IF \E i \in 1..Len(seq) : seq[i].py = "int" /\ seq[i].v < 0
           THEN Integer64([i \in 1..Len(seq) |->
                            IF seq[i].py = "int" THEN seq[i].v ELSE IF seq[i].v THEN 1 ELSE 0])
           ELSE Natural64([i \in 1..Len(seq) |->
                            IF seq[i].py = "int" THEN seq[i].v ELSE IF seq[i].v THEN 1 ELSE 0])
  ELSE Bit([i \in 1..Len(seq) |-> seq[i].v])

C22_StrictifyMapping ==
  last.op = "__init__" =>
    LET s == last.source
    IN  IF s.py = "Value" THEN last.value = s.v
        ELSE IF s.py = "ValueProxy" THEN TRUE
        ELSE IF s.py = "str" THEN last.value = String(s.v)
        ELSE IF s.py = "bytes" THEN last.value = Unstructured(s.v)
        ELSE last.value = C22_Array(C22_Scalars(s))

\* [True, 0] became natural64 [1, 0].
C22_Witness ==
  /\ last.op = "__init__"
  /\ last.source.py = "list"
  /\ Len(last.source.v) = 2
  /\ last.value = Natural64(<<1, 0>>)

---------------------------------------------------------------------------
(* Claims on the backends called directly, checked under SpecBackend. *)

IsCall(op, b) == last.op = op /\ last.b = b
Returned == ~IsRaised(last.out)
RegKeys(items) == Range(DynamicBackend_keys(items))
\* The binding register was called with.
NewBinding ==
  [name |-> last.name, getter |-> last.pair[1], setter |-> last.pair[2], cell |-> last.arg]
\* The binding the delegated backend held for the name when the call began.
HeldBinding == last.pre.reg[ItemIndex(last.pre.reg, last.name)]

(* C23: in every state of the delegated backend, whatever register, delete *)
(* and close calls led to it, keys() lists the registered names in         *)
(* strictly ascending order (so without duplicates) and count() is their   *)
(* number; register adds its name, delete removes the names it is given,   *)
(* close removes all.                                                      *)
C23_KeysSortedCountExact ==
  LET keys == DynamicBackend_keys(reg)
  IN  /\ \A i, j \in 1..Len(keys) : i < j => IsBefore(keys[i], keys[j])
      /\ DynamicBackend_count(reg) = Cardinality(Range(keys))
      /\ IsCall("register", DYNAMIC) => Range(keys) = RegKeys(last.pre.reg) \cup {last.name}
      /\ IsCall("delete", DYNAMIC) => Range(keys) = RegKeys(last.pre.reg) \ Range(last.names)
      /\ IsCall("close", DYNAMIC) => keys = <<>>
      /\ IsCall("keys", DYNAMIC) => last.names = SortedNames(Range(keys))
      /\ IsCall("count", DYNAMIC) => last.count = Cardinality(Range(keys))

\* "x" was registered after "y" and is listed before it.
C23_Witness ==
  /\ IsCall("register", DYNAMIC) /\ last.name = "x"
  /\ DynamicBackend_keys(last.pre.reg) = <<"y">>
  /\ DynamicBackend_keys(reg) = <<"x", "y">>
  /\ DynamicBackend_count(reg) = 2

(* C24: register on a name the delegated backend already holds replaces    *)
(* the binding: get(name) then runs the new getter and reports mutable by  *)
(* the new setter, the backend holds the new binding alone under that      *)
(* name, count() is what it was; and get and set only ever run a binding   *)
(* the backend holds, so the replaced one never runs again.                *)
C24_ReRegisterReplaces ==
  /\ (IsCall("register", DYNAMIC) /\ last.name \in RegKeys(last.pre.reg)) =>
       /\ DynamicBackend_get(reg, last.name) =
            IF last.pair[1] = "raise" THEN GetRaised("BackendError")
            ELSE Entry(last.arg, last.pair[2] # "none")
       /\ \A i \in 1..Len(reg) : reg[i].name = last.name => reg[i] = NewBinding
       /\ DynamicBackend_count(reg) = DynamicBackend_count(last.pre.reg)
  /\ (last.b = DYNAMIC /\ last.op \in {"get", "set"}) =>
       \A k \in 1..Len(last.invoked) : last.invoked[k] \in Range(last.pre.reg)

\* A getter-only register was registered again with a setter and another value.
C24_Witness ==
  /\ IsCall("register", DYNAMIC) /\ last.name \in RegKeys(last.pre.reg)
  /\ HeldBinding.setter = "none" /\ last.pair = <<"var", "store">>
  /\ HeldBinding.cell # last.arg
  /\ DynamicBackend_get(reg, last.name) = Entry(last.arg, TRUE)

(* C25: get of the delegated backend reports mutable exactly when the     *)
(* register has a setter; set on a register that has a getter only raises *)
(* nothing, runs nothing and leaves what get returns as it was.           *)
C25_MutableIffSetter ==
  /\ (IsCall("get", DYNAMIC) /\ last.out.kind = "entry") =>
       (last.out.mutable <=> HeldBinding.setter # "none")
  /\ (/\ IsCall("set", DYNAMIC)
      /\ last.name \in RegKeys(last.pre.reg)
      /\ HeldBinding.setter = "none") =>
       /\ last.out = ReturnedNone
       /\ last.invoked = <<>>
       /\ DynamicBackend_get(reg, last.name) = DynamicBackend_get(last.pre.reg, last.name)
       /\ reg = last.pre.reg

\* A value other than the one the getter returns was set on a getter-only register.
C25_Witness ==
  /\ IsCall("set", DYNAMIC) /\ last.name \in RegKeys(last.pre.reg)
  /\ HeldBinding.getter = "var" /\ HeldBinding.setter = "none"
  /\ HeldBinding.cell # last.arg
  /\ DynamicBackend_get(reg, last.name) = Entry(HeldBinding.cell, FALSE)

(* C26, as stated: Backend.set creates or overwrites in every backend:    *)
(* after set(name, v) returns get(name) is not None, and on a name that   *)
(* existed count() is unchanged.  DynamicBackend.set does nothing for a   *)
(* name it does not hold.                                                 *)
C26_SetCreatesOrOverwrites ==
  (last.op = "set" /\ Returned) =>
    /\ Backend_get(Storage, last.b, last.name).kind # "None"
    /\ HasName(Pre, last.b, last.name) =>
         Backend_count(Storage, last.b) = Backend_count(Pre, last.b)

(* C26, amended: set on a name the backend holds keeps keys() and count() *)
(* as they were; on a name it does not hold the durable backend creates   *)
(* the register, which get then returns with the value set, and the       *)
(* delegated backend does nothing: get(name) stays None and count() is    *)
(* unchanged.                                                             *)
C26_SetCreatesInSQLiteOnly ==
  (last.op = "set" /\ Returned) =>
    /\ HasName(Pre, last.b, last.name) =>
         /\ Backend_keys(Storage, last.b) = Backend_keys(Pre, last.b)
         /\ Backend_count(Storage, last.b) = Backend_count(Pre, last.b)
    /\ last.b = SQLITE => Backend_get(Storage, SQLITE, last.name) = Entry(last.arg, TRUE)
    /\ (last.b = DYNAMIC /\ ~HasName(Pre, DYNAMIC, last.name)) =>
         /\ Backend_get(Storage, DYNAMIC, last.name) = NoEntry
         /\ reg = last.pre.reg

\* set on a name the delegated backend does not hold returned, and get gives None.
C26_Witness ==
  /\ IsCall("set", DYNAMIC) /\ Returned
  /\ last.pre.reg # <<>>
  /\ ~HasName(Pre, DYNAMIC, last.name)
  /\ Backend_get(Storage, DYNAMIC, last.name) = NoEntry

(* C27: in the durable backend get(name) after set(name, v) returns v      *)
(* itself, option, length and elements, with mutable true, whatever was    *)
(* stored before; set on a stored name leaves count() and keys() as they   *)
(* were.                                                                   *)
C27_SQLiteSetThenGet ==
  IsCall("set", SQLITE) =>
    /\ last.out = ReturnedNone
    /\ SQLiteBackend_get(db, last.name) = Entry(last.arg, TRUE)
    /\ last.name \in RowNames(last.pre.db) =>
         /\ SQLiteBackend_count(db) = SQLiteBackend_count(last.pre.db)
         /\ SQLiteBackend_keys(db) = SQLiteBackend_keys(last.pre.db)

\* A bit register of two was overwritten with an integer8 array.
C27_Witness ==
  /\ IsCall("set", SQLITE)
  /\ SQLiteBackend_count(last.pre.db) = 2
  /\ SQLiteBackend_get(last.pre.db, last.name) = Entry(Bit(<<TRUE>>), TRUE)
  /\ SQLiteBackend_get(db, last.name) = Entry(Integer8(<<1, 2>>), TRUE)

C29_FaultIsBackendError ==
  (last.b = DYNAMIC /\ last.op \in {"get", "set"} /\ IsRaised(last.out)) =>
    /\ last.out.kind = "BackendError"
    /\ reg = last.pre.reg

---------------------------------------------------------------------------
(* C30: whenever Registry.set, access or the Access handler runs the       *)
(* setter of a delegated register, the Value the setter is given has the   *)
(* option of the Value the register's getter returns in that operation,    *)
(* and for the numeric arrays its length.  Checked under Spec.             *)
SetterCalls == {k \in 1..Len(last.trace) : last.trace[k].call = "setter"}
\* What the getter of the register returns in the recorded operation.
GetterValue(k) == Backend_get(Pre, last.trace[k].b, last.name).value

C30_SetterGetsGetterType ==
  (last.op \in {"set", "access", "handle_access"}) =>
    \A k \in SetterCalls :
      /\ last.trace[k].b = DYNAMIC
      /\ Backend_get(Pre, DYNAMIC, last.name).kind = "entry"
      /\ last.trace[k].value.opt = GetterValue(k).opt
      /\ IsArray(GetterValue(k)) => Len(last.trace[k].value.val) = Len(GetterValue(k).val)

\* The setter of an integer8[2] register was given [2, 2] for the reals [1.5, 2.5].
C30_Witness ==
  /\ last.op \in {"set", "access", "handle_access"}
  /\ Strictify(last.arg) = Real64(<<3, 5>>)
  /\ \E k \in SetterCalls :
       /\ GetterValue(k) = Integer8(<<1, 2>>)
       /\ last.trace[k].value = Integer8(<<2, 2>>)

---------------------------------------------------------------------------
(* Claims on Node.create_register, checked under SpecNode. *)

NodeCreated == last.op = "create_register"
\* What registry.get(name) must give once the register is what was created.
CreatedOutcome ==
  IF last.created.py \in {"Value", "ValueProxy"}
    THEN ValueWithFlags(last.created.v, TRUE, SQLiteBackend_persistent(loc))
  ELSE IF last.created.pair[1] = "raise" THEN Raised("BackendError")
  ELSE ValueWithFlags(last.created.v, last.created.pair[2] # "none", FALSE)

(* C31: after create_register(name, v, overwrite=True) registry.get(name)  *)
(* returns the value just given, or what the new getter returns, not       *)
(* converted, whatever backend held the name before.  The code registers   *)
(* a getter in the dynamic backend and leaves the copy of the SQLite       *)
(* backend, which is first in the chain, where it is.                      *)
C31_OverwriteReplacesRegister ==
  (NodeCreated /\ last.overwrite /\ ~IsRaised(last.out)) =>
    Registry_get(Storage, backends, last.name).out = CreatedOutcome

(* C32: create_register with overwrite=False on a name that a backend of   *)
(* the registry holds changes nothing: both backends are as they were, so  *)
(* the value, type, mutable flag and owner of the register are the same    *)
(* and no register is added; when the register can be read the call        *)
(* returns None.                                                           *)
C32_NoOverwriteKeepsRegister ==
  (/\ NodeCreated /\ ~last.overwrite
   /\ \E i \in 1..Len(backends) : HasName(Pre, backends[i], last.name)) =>
    /\ db = last.pre.db
    /\ reg = last.pre.reg
    /\ Registry_get(Storage, backends, last.name) = Registry_get(Pre, backends, last.name)
    /\ Registry_get(Pre, backends, last.name).out.kind = "value" => last.out = ReturnedNone

\* A getter was offered for a name the SQLite backend holds with another type.
C32_Witness ==
  /\ NodeCreated /\ ~last.overwrite
  /\ last.created.py = "callable" /\ last.created.v = Integer8(<<1, 2>>)
  /\ SQLiteBackend_get(last.pre.db, last.name) = Entry(Bit(<<TRUE>>), TRUE)
  /\ ~HasName(Storage, DYNAMIC, last.name)
  /\ Registry_get(Storage, backends, last.name).out.value = Bit(<<TRUE>>)

---------------------------------------------------------------------------
(* Claims on value writes in sequential execution, checked under Spec. *)

IsWrite == last.op \in {"set", "access", "handle_access"}

(* C35: Registry.set, access and the Access handler create and remove no   *)
(* register: whatever the name and the value, and whether the call         *)
(* succeeds, is ignored or raises, keys() of every bound backend (names    *)
(* and order) is what it was, and so is every get_name_at_index.           *)
C35_WritesKeepKeys ==
  IsWrite =>
    /\ \A i \in 1..Len(backends) :
         Backend_keys(Storage, backends[i]) = Backend_keys(Pre, backends[i])
    /\ \A index \in Indexes :
         Registry_get_name_at_index(Storage, backends, index) =
           Registry_get_name_at_index(Pre, backends, index)

\* A write changed the value of one of two registers of the SQLite backend.
C35_Witness ==
  /\ IsWrite /\ ~IsRaised(last.out)
  /\ \E i \in 1..Len(backends) : backends[i] = SQLITE
  /\ SQLiteBackend_keys(last.pre.db) = <<"x", "y">>
  /\ db # last.pre.db

(* C38: a register whose value is the empty option stays empty under       *)
(* Registry.set, access and the Access handler with any value: after the   *)
(* call every bound backend still returns the empty Value for it.          *)
C38_EmptyStaysEmpty ==
  IsWrite =>
    \A i \in 1..Len(backends), name \in Names :
      (/\ Backend_get(Pre, backends[i], name).kind = "entry"
       /\ Backend_get(Pre, backends[i], name).value = EmptyValue) =>
        /\ Backend_get(Storage, backends[i], name).kind = "entry"
        /\ Backend_get(Storage, backends[i], name).value = EmptyValue

\* A non-empty value was written to an empty register: the backend was set, to empty.
C38_Witness ==
  /\ IsWrite /\ Strictify(last.arg) \notin {EmptyValue, NoValue}
  /\ Owned(last.name)
  /\ OwnerEntry(last.name) = Entry(EmptyValue, TRUE)
  /\ \E k \in 1..Len(last.trace) :
       last.trace[k].call = "set" /\ last.trace[k].value = EmptyValue
  /\ Backend_get(Storage, OwnerId(last.name), last.name).value = EmptyValue

(* C39: Registry.set does not look at the mutable flag: on a register      *)
(* whose first owner is a delegated register with a getter only, set with  *)
(* a value that converts returns None, runs no setter and changes nothing, *)
(* and Registry.get returns what it returned before.                       *)
C39_SetOnGetterOnly ==
  (/\ last.op = "set" /\ GetterOnly(last.name)
   /\ OwnerEntry(last.name).kind = "entry"
   /\ DoConvert(OwnerEntry(last.name).value, Strictify(last.arg)) \notin ConvFailures) =>
    /\ last.out = ReturnedNone
    /\ NoSetterRan
    /\ StorageUnchanged
    /\ Registry_get(Storage, backends, last.name).out = Registry_get(Pre, backends, last.name).out
    /\ Registry_get(Storage, backends, last.name).out.value = OwnerEntry(last.name).value

\* False was set on a getter-only bit register that holds True.
C39_Witness ==
  /\ last.op = "set" /\ GetterOnly(last.name)
  /\ OwnerEntry(last.name) = Entry(Bit(<<TRUE>>), FALSE)
  /\ Strictify(last.arg) = Bit(<<FALSE>>)
  /\ last.out = ReturnedNone
  /\ Registry_get(Storage, backends, last.name).out.value = Bit(<<TRUE>>)

---------------------------------------------------------------------------
(* Claims on tasks running at the same time, checked under SpecTasks. *)

Task(t) == last.tasks[t]
Writers == {t \in Tasks : Task(t).op \in {"set", "access"}}
Deleters == {t \in Tasks : Task(t).op = "delete"}
AllDone == \A t \in Tasks : Task(t).pc = "done"
\* The first backend of the chain that held the register when the tasks began.
InitialOwner ==
  backends[CHOOSE i \in 1..Len(backends) :
             /\ Backend_get(last.initial, backends[i], TaskName).kind = "entry"
             /\ \A j \in 1..(i - 1) :
                  Backend_get(last.initial, backends[j], TaskName).kind # "entry"]
InitialEntry(b) == Backend_get(last.initial, b, TaskName)
\* What assign makes of the request of task t for the register as it was.
ConvertedFor(t, b) == ValueProxy_assign(InitialEntry(b).value, RelaxedOf(Task(t).arg))

(* C33: two tasks write the same mutable register with Registry.set or     *)
(* access, their gets and sets interleaved in any order: when both are     *)
(* done the register holds the converted value of the request whose        *)
(* b.set ran last, whatever the other task wrote in between.               *)
C33_LastWriteWins ==
  (/\ AllDone /\ Writers = Tasks
   /\ last.writes # <<>>
   /\ InitialEntry(InitialOwner).mutable) =>
    LET w == last.writes[Len(last.writes)]
    IN  /\ w.b = InitialOwner
        /\ ConvertedFor(w.t, w.b).kind = "ok"
        /\ Backend_get(Storage, w.b, TaskName).value = ConvertedFor(w.t, w.b).value
        /\ Backend_get(Storage, w.b, TaskName).value = w.value

\* Both tasks read integer8 [1, 2] before either wrote; task 1 wrote last.
C33_Witness ==
  /\ AllDone
  /\ Task(1).op = "set" /\ Task(2).op = "set"
  /\ Task(1).e.value = Integer8(<<1, 2>>) /\ Task(2).e.value = Integer8(<<1, 2>>)
  /\ Task(1).c = Integer8(<<2, 2>>) /\ Task(2).c = Integer8(<<0, 1>>)
  /\ Len(last.writes) = 2 /\ last.writes[2].t = 1
  /\ Backend_get(Storage, InitialOwner, TaskName).value = Integer8(<<2, 2>>)

(* C34: with tasks abandoned between any two statements of set or access,  *)
(* in every state the register of each backend is what it was at the       *)
(* start or the whole converted value of a request that reached its        *)
(* b.set, of the same option and with the same mutable flag; it is absent  *)
(* only if it was absent or a delete is among the tasks.                   *)
C34_NoPartialWrite ==
  \A i \in 1..Len(backends) :
    LET b == backends[i]
        ent == Backend_get(Storage, b, TaskName)
    IN  IF ent.kind = "None" THEN InitialEntry(b).kind = "None" \/ Deleters # {}
        ELSE /\ InitialEntry(b).kind = "entry"
             /\ ent.mutable = InitialEntry(b).mutable
             /\ ent.value.opt = InitialEntry(b).value.opt
             /\ \/ ent.value = InitialEntry(b).value
                \/ \E t \in Writers :
                     /\ Task(t).wrote
                     /\ ConvertedFor(t, b).kind = "ok"
                     /\ ent.value = ConvertedFor(t, b).value

\* One task was abandoned before its b.set, the other after it.
C34_Witness ==
  /\ Task(1).pc = "cancelled" /\ Task(1).at = "write"
  /\ Task(2).pc = "cancelled" /\ Task(2).at = "reread"
  /\ Task(1).c # Task(2).c
  /\ Backend_get(Storage, InitialOwner, TaskName).value = Task(2).c
  /\ Task(2).c # InitialEntry(InitialOwner).value

(* C36: when a delete removes the name from a backend between the b.get    *)
(* and the b.set of a set or access on that name, the name is absent from  *)
(* that backend once both tasks are done.  SQLiteBackend.set is insert or  *)
(* replace: the write that comes after the delete creates the row again.   *)
C36_DeletedStaysDeleted ==
  AllDone =>
    \A t \in Tasks :
      Task(t).raced => ~HasName(Storage, backends[Task(t).i], TaskName)

---------------------------------------------------------------------------
(* The claim on the Access handlers of one event loop, under SpecServer. *)

Handler(t) == last.handlers[t]
\* The storage and the response of the k-th handler of the order, had the
\* handlers run one after the other, each from start to end.
RECURSIVE Sequential(_)
Sequential(k) ==
  IF k = 0
    THEN Result([db |-> last.initial.db, reg |-> last.initial.reg,
                 loc |-> loc, closed |-> closed], ReturnedNone, <<>>)
    ELSE Server_handle_access(Sequential(k - 1).S, backends, TaskName,
                              Handler(last.order[k]).arg)

(* C37: a run of _handle_access goes from its registry.get to its          *)
(* read-back with no other run in between: a response to a request that   *)
(* wrote carries the value this request gave to Backend.set, every         *)
(* response is the one the requests give when handled one after the other  *)
(* in the order they began, and so is the storage between two runs.        *)
C37_HandlersAreSerial ==
  /\ \A t \in Tasks :
       (Handler(t).pc = "done" /\ Handler(t).wrote /\ Handler(t).out.kind = "response") =>
         Handler(t).out.value = Handler(t).stored
  /\ \A k \in 1..Len(last.order) :
       Handler(last.order[k]).pc = "done" =>
         Handler(last.order[k]).out = Sequential(k).out
  /\ last.running = 0 =>
       /\ db = Sequential(Len(last.order)).S.db
       /\ reg = Sequential(Len(last.order)).S.reg

\* Two requests were waiting together; both wrote, with different values.
C37_Witness ==
  /\ \A t \in Tasks : Handler(t).pc = "done" /\ Handler(t).wrote
  /\ Handler(1).out.kind = "response" /\ Handler(2).out.kind = "response"
  /\ Handler(1).out.value # Handler(2).out.value
  /\ last.order = <<2, 1>>
  /\ Backend_get(Storage, SQLITE, TaskName).value = Handler(1).stored

====
